---- MODULE Spec2Model ----
(***************************************************************************)
(* The MongoDB aggregation-pipeline compiler of teo                        *)
(* (src/connectors/mongodb/aggregation_builder.rs): the scalar parsers,    *)
(* the where-filter compiler, unique-where validation, the include         *)
(* (lookup) compiler and the pipeline assembler.                           *)
(***************************************************************************)
EXTENDS Integers, Sequences, FiniteSets, TLC

(***************************************************************************)
(* Values.  serde_json::Value, bson::Bson, Option and Result are tagged    *)
(* records; a JSON object and a bson Document are sequences of             *)
(* <<key, value>> pairs in iteration order.                                *)
(***************************************************************************)
JNull == [t |-> "null"]
JBool(b) == [t |-> "bool", b |-> b]
\* an integer JSON number (is_i64 / is_u64)
JInt(n) == [t |-> "int", n |-> n]
\* a non-integer JSON number (is_f64), counted in halves: JFloat(3) is 1.5
JFloat(h) == [t |-> "float", h |-> h]
JStr(s) == [t |-> "str", s |-> s]
JArr(a) == [t |-> "arr", a |-> a]
JObj(o) == [t |-> "obj", o |-> o]

BsonObjectId(bytes) == [t |-> "ObjectId", oid |-> bytes]
BsonBoolean(b) == [t |-> "Boolean", b |-> b]
BsonInt64(n) == [t |-> "Int64", n |-> n]
\* a double, counted in halves like JFloat
BsonDouble(h) == [t |-> "Double", h |-> h]
BsonString(s) == [t |-> "String", s |-> s]
\* milliseconds since the epoch
BsonDateTime(ms) == [t |-> "DateTime", ms |-> ms]
BsonArray(a) == [t |-> "Array", a |-> a]
BsonDocument(d) == [t |-> "Document", d |-> d]
\* pattern is a sequence of characters
BsonRegex(pattern, options) == [t |-> "Regex", pattern |-> pattern, options |-> options]

None == [some |-> FALSE]
Some(v) == [some |-> TRUE, v |-> v]

Ok(v) == [k |-> "Ok", v |-> v]
Err(kind) == [k |-> "Err", e |-> kind, msg |-> ""]
ErrMsg(kind, msg) == [k |-> "Err", e |-> kind, msg |-> msg]
\* unwrap() on None / Err, todo!(), panic!(), arithmetic overflow with checks on
Panic == [k |-> "Panic"]
IsOk(r) == r.k = "Ok"

\* serde_json::Map::get
JsonGet(o, key) ==
    IF \E i \in DOMAIN o : o[i][1] = key
    THEN Some(o[CHOOSE i \in DOMAIN o : o[i][1] = key][2])
    ELSE None

JsonKeys(o) == {o[i][1] : i \in DOMAIN o}

\* bson::Document::insert: an existing key keeps its place and takes the new value
DocInsert(d, key, v) ==
    IF \E i \in DOMAIN d : d[i][1] = key
    THEN [i \in DOMAIN d |-> IF d[i][1] = key THEN <<key, v>> ELSE d[i]]
    ELSE Append(d, <<key, v>>)

DocGet(d, key) == JsonGet(d, key)

(***************************************************************************)
(* Strings.  A string value is a TLA+ string; Chars gives the characters   *)
(* of the strings the inputs are made of, for the parsers that read them.  *)
(***************************************************************************)
OidLen == 24

OidLower == "aaaaaaaaaaaaaaaaaaaaaaaa"
OidUpper == "AAAAAAAAAAAAAAAAAAAAAAAA"
OidOther == "0123456789abcdef01234567"

Chars(s) ==
    CASE s = "" -> <<>>
      [] s = "abc" -> <<"a", "b", "c">>
      [] s = "a.b" -> <<"a", ".", "b">>
      [] s = "x" -> <<"x">>
      [] s = "ADMIN" -> <<"A", "D", "M", "I", "N">>
      [] s = "GUEST" -> <<"G", "U", "E", "S", "T">>
      [] s = "caseInsensitive" ->
            <<"c", "a", "s", "e", "I", "n", "s", "e", "n", "s", "i", "t", "i", "v", "e">>
      [] s = OidLower -> [i \in 1..24 |-> "a"]
      [] s = OidUpper -> [i \in 1..24 |-> "A"]
      [] s = OidOther ->
            <<"0", "1", "2", "3", "4", "5", "6", "7", "8", "9", "a", "b",
              "c", "d", "e", "f", "0", "1", "2", "3", "4", "5", "6", "7">>
      [] s = "1970-01-02" -> <<"1", "9", "7", "0", "-", "0", "1", "-", "0", "2">>
      [] s = "1970-02-30" -> <<"1", "9", "7", "0", "-", "0", "2", "-", "3", "0">>
      [] s = "1970-01-02T00:00:00Z" ->
            <<"1", "9", "7", "0", "-", "0", "1", "-", "0", "2", "T",
              "0", "0", ":", "0", "0", ":", "0", "0", "Z">>
      [] s = "1970-01-02T01:00:00+01:00" ->
            <<"1", "9", "7", "0", "-", "0", "1", "-", "0", "2", "T",
              "0", "1", ":", "0", "0", ":", "0", "0", "+", "0", "1", ":", "0", "0">>
      [] s = "1970-01-03T00:00:00Z" ->
            <<"1", "9", "7", "0", "-", "0", "1", "-", "0", "3", "T",
              "0", "0", ":", "0", "0", ":", "0", "0", "Z">>

Digits == <<"0", "1", "2", "3", "4", "5", "6", "7", "8", "9">>
IsDigit(c) == \E i \in DOMAIN Digits : Digits[i] = c
DigitVal(c) == (CHOOSE i \in DOMAIN Digits : Digits[i] = c) - 1

HexLower == <<"0", "1", "2", "3", "4", "5", "6", "7", "8", "9", "a", "b", "c", "d", "e", "f">>
HexUpper == <<"0", "1", "2", "3", "4", "5", "6", "7", "8", "9", "A", "B", "C", "D", "E", "F">>
IsHex(c) == \E i \in DOMAIN HexLower : HexLower[i] = c \/ HexUpper[i] = c
HexVal(c) == (CHOOSE i \in DOMAIN HexLower : HexLower[i] = c \/ HexUpper[i] = c) - 1

\* the decimal number written by the digits cs[from..to]
RECURSIVE Number(_, _, _)
Number(cs, from, to) ==
    IF to < from THEN 0 ELSE 10 * Number(cs, from, to - 1) + DigitVal(cs[to])

AllDigits(cs, from, to) == \A i \in from..to : IsDigit(cs[i])

\* the digits of n, zero-padded to width w
RECURSIVE Padded(_, _)
Padded(n, w) ==
    IF w = 0 THEN <<>> ELSE Append(Padded(n \div 10, w - 1), Digits[(n % 10) + 1])

(***************************************************************************)
(* Calendar (chrono).                                                      *)
(***************************************************************************)
IsLeap(y) == (y % 4 = 0 /\ y % 100 # 0) \/ y % 400 = 0

DaysInMonth(y, m) ==
    IF m = 2 THEN (IF IsLeap(y) THEN 29 ELSE 28)
    ELSE IF m \in {4, 6, 9, 11} THEN 30 ELSE 31

\* days since 1970-01-01 of day d of month mp (counted from March) of year yy
\* (counted from March)
CivilDays(yy, mp, d) ==
    (yy \div 400) * 146097
    + (yy % 400) * 365 + (yy % 400) \div 4 - (yy % 400) \div 100
    + (153 * mp + 2) \div 5 + d - 1
    - 719468

\* days since 1970-01-01 of a civil date
DaysFromCivil(y, m, d) ==
    CivilDays(IF m <= 2 THEN y - 1 ELSE y, IF m > 2 THEN m - 3 ELSE m + 9, d)

\* a calendar day, if there is such a day
ValidYmd(y, m, d) ==
    IF m \in 1..12 /\ d >= 1 /\ d <= DaysInMonth(y, m)
    THEN Some([y |-> y, m |-> m, d |-> d])
    ELSE None

\* the grammar YYYY-MM-DD at cs[at..at+9], as a calendar day
ParseYmd(cs, at) ==
    IF /\ Len(cs) >= at + 9
       /\ AllDigits(cs, at, at + 3) /\ cs[at + 4] = "-"
       /\ AllDigits(cs, at + 5, at + 6) /\ cs[at + 7] = "-"
       /\ AllDigits(cs, at + 8, at + 9)
    THEN ValidYmd(Number(cs, at, at + 3), Number(cs, at + 5, at + 6),
                  Number(cs, at + 8, at + 9))
    ELSE None

\* NaiveDate::parse_from_str(s, "%Y-%m-%d")
NaiveDateParse(cs) == IF Len(cs) = 10 THEN ParseYmd(cs, 1) ELSE None

\* Date::format("%Y-%m-%d").to_string()
FormatYmd(date) ==
    Padded(date.y, 4) \o <<"-">> \o Padded(date.m, 2) \o <<"-">> \o Padded(date.d, 2)

\* THH:MM:SS at cs[11..19]
TimeOk(cs) ==
    /\ Len(cs) >= 20
    /\ cs[11] \in {"T", "t"}
    /\ AllDigits(cs, 12, 13) /\ cs[14] = ":"
    /\ AllDigits(cs, 15, 16) /\ cs[17] = ":"
    /\ AllDigits(cs, 18, 19)
    /\ Number(cs, 12, 13) <= 23
    /\ Number(cs, 15, 16) <= 59
    /\ Number(cs, 18, 19) <= 59

\* the offset Z or +HH:MM or -HH:MM from cs[20] on
IsZulu(cs) == Len(cs) = 20 /\ cs[20] \in {"Z", "z"}

OffsetOk(cs) ==
    /\ Len(cs) = 25
    /\ cs[20] \in {"+", "-"}
    /\ AllDigits(cs, 21, 22) /\ cs[23] = ":"
    /\ AllDigits(cs, 24, 25)
    /\ Number(cs, 21, 22) <= 23
    /\ Number(cs, 24, 25) <= 59

OffsetSecs(cs) ==
    IF IsZulu(cs) THEN 0
    ELSE (IF cs[20] = "-" THEN -1 ELSE 1)
         * (Number(cs, 21, 22) * 60 + Number(cs, 24, 25)) * 60

\* the instant of local time cs[12..19] on day `date` at the offset of cs, in UTC
InstantMillis(date, cs) ==
    IF date.some
    THEN Some(((((DaysFromCivil(date.v.y, date.v.m, date.v.d) * 24
                    + Number(cs, 12, 13)) * 60
                    + Number(cs, 15, 16)) * 60
                    + Number(cs, 18, 19)) - OffsetSecs(cs)) * 1000)
    ELSE None

\* an RFC 3339 date-time YYYY-MM-DDTHH:MM:SS(Z|+HH:MM|-HH:MM), as milliseconds
\* since the epoch in UTC (DateTime::parse_from_rfc3339 then with_timezone(&Utc),
\* bson::DateTime::parse_rfc3339_str)
ParseRfc3339(cs) ==
    IF TimeOk(cs) /\ (IsZulu(cs) \/ OffsetOk(cs))
    THEN InstantMillis(ParseYmd(cs, 1), cs)
    ELSE None

(***************************************************************************)
(* Schema (Graph, Model, Field, Relation).                                 *)
(***************************************************************************)
FT(name) == [ft |-> name, enum |-> ""]
FTEnum(enum) == [ft |-> "Enum", enum |-> enum]

IntTypes == {"I8", "I16", "I32", "I64", "I128", "U8", "U16", "U32", "U64", "U128"}
FloatTypes == {"F32", "F64"}

Field(name, column, type, queryable) ==
    [name |-> name, column |-> column, field_type |-> type, queryable |-> queryable]

Relation(name, model_, fields, references, through) ==
    [name |-> name, model |-> model_, fields |-> fields, references |-> references,
     through |-> through]

ModelFields(model_) ==
    CASE model_ = "User" ->
            <<Field("id", "_id", FT("ObjectId"), TRUE),
              Field("name", "name", FT("String"), TRUE),
              Field("age", "age", FT("I32"), TRUE),
              Field("score", "score", FT("F64"), TRUE),
              Field("active", "is_active", FT("Bool"), TRUE),
              Field("birthday", "birthday", FT("Date"), TRUE),
              Field("createdAt", "created_at", FT("DateTime"), TRUE),
              Field("role", "role", FTEnum("Role"), TRUE),
              Field("balance", "balance", FT("Decimal"), TRUE),
              Field("password", "password", FT("String"), FALSE)>>
      [] model_ = "Post" ->
            <<Field("id", "_id", FT("ObjectId"), TRUE),
              Field("slug", "slug", FT("String"), TRUE),
              Field("title", "title", FT("String"), TRUE),
              Field("authorId", "author_id", FT("ObjectId"), TRUE),
              Field("views", "views", FT("I64"), TRUE)>>
      [] model_ = "Tag" ->
            <<Field("id", "_id", FT("ObjectId"), TRUE),
              Field("label", "label", FT("String"), TRUE)>>
      [] model_ = "PostTag" ->
            <<Field("postId", "post_id", FT("ObjectId"), TRUE),
              Field("tagId", "tag_id", FT("ObjectId"), TRUE)>>
      [] model_ = "Profile" ->
            <<Field("id", "_id", FT("ObjectId"), TRUE),
              Field("userName", "user_name", FT("String"), TRUE),
              Field("userAge", "user_age", FT("I32"), TRUE)>>

ModelRelations(model_) ==
    CASE model_ = "User" ->
            <<Relation("posts", "Post", <<"id">>, <<"authorId">>, None)>>
      [] model_ = "Post" ->
            <<Relation("author", "User", <<"authorId">>, <<"id">>, None),
              Relation("tags", "Tag", <<"post">>, <<"tag">>, Some("PostTag"))>>
      [] model_ = "Tag" -> <<>>
      [] model_ = "PostTag" ->
            <<Relation("post", "Post", <<"postId">>, <<"id">>, None),
              Relation("tag", "Tag", <<"tagId">>, <<"id">>, None)>>
      [] model_ = "Profile" ->
            <<Relation("user", "User", <<"userName", "userAge">>, <<"name", "age">>, None)>>

\* Model.table_name
TableName(model_) ==
    CASE model_ = "User" -> "users"
      [] model_ = "Post" -> "posts"
      [] model_ = "Tag" -> "tags"
      [] model_ = "PostTag" -> "post_tags"
      [] model_ = "Profile" -> "profiles"

\* the entry called name of a sequence of fields or relations
Named(entries, name) ==
    IF \E i \in DOMAIN entries : entries[i].name = name
    THEN Some(entries[CHOOSE i \in DOMAIN entries : entries[i].name = name])
    ELSE None

\* Model.field(name)
ModelField(model_, name) == Named(ModelFields(model_), name)

\* Model.field(name).unwrap().column_name()
ColumnName(model_, name) == ModelField(model_, name).v.column

\* Model.relation(name)
ModelRelation(model_, name) == Named(ModelRelations(model_), name)

QueryableNames(fields) == {fields[i].name : i \in {j \in DOMAIN fields : fields[j].queryable}}

\* Model.query_keys()
QueryKeys(model_) == QueryableNames(ModelFields(model_))

\* Model.unique_query_keys()
UniqueQueryKeys(model_) ==
    CASE model_ = "User" -> {{"id"}, {"name", "age"}}
      [] model_ = "Post" -> {{"id"}, {"slug"}}
      [] model_ = "Tag" -> {{"id"}}
      [] model_ = "PostTag" -> {{"postId", "tagId"}}
      [] model_ = "Profile" -> {{"id"}}

\* Graph.enum(name)
GraphEnum(name) ==
    CASE name = "Role" -> {"ADMIN", "GUEST"}
      [] OTHER -> {}

(***************************************************************************)
(* Scalar parsers.                                                         *)
(***************************************************************************)
\* the ? operator: on Ok the continuation runs on the value, anything else returns
AndThen(r, K(_)) == IF r.k = "Ok" THEN K(r.v) ELSE r

\* match on an Option: Some(v) gives S(v), None gives n
Match2(opt, S(_), n) == IF opt.some THEN S(opt.v) ELSE n

\* f64 as i64: truncation toward zero
TruncHalves(h) == IF h >= 0 THEN h \div 2 ELSE -((-h) \div 2)

\* the bytes of 24 hexadecimal digits, if cs is that
HexBytes(cs) ==
    IF Len(cs) = OidLen /\ \A i \in DOMAIN cs : IsHex(cs[i])
    THEN Some([i \in DOMAIN cs |-> HexVal(cs[i])])
    ELSE None

\* ObjectId::parse_str
ObjectIdParseStr(s) == HexBytes(Chars(s))

parse_object_id(value) ==
    IF value.t = "str"
    THEN Match2(ObjectIdParseStr(value.s), LAMBDA oid : Ok(BsonObjectId(oid)),
                Err("WrongInputType"))
    ELSE Err("WrongInputType")

\* a variant that takes every string for the case-insensitive mode
has_i_mode_AnyString(map) ==
    Match2(JsonGet(map, "mode"), LAMBDA val : val.t = "str", FALSE)

has_i_mode(map) ==
    Match2(JsonGet(map, "mode"),
           LAMBDA val : IF val.t = "str" THEN val.s = "caseInsensitive" ELSE FALSE,
           FALSE)

parse_string(value) ==
    IF value.t = "str" THEN Ok(BsonString(value.s)) ELSE Err("WrongInputType")

parse_bool(value) ==
    IF value.t = "bool" THEN Ok(BsonBoolean(value.b)) ELSE Err("WrongInputType")

parse_i64(value) ==
    IF value.t = "int" THEN Ok(BsonInt64(value.n))
    ELSE IF value.t = "float" THEN Ok(BsonInt64(TruncHalves(value.h)))
    ELSE Err("WrongInputType")

parse_f64(value) ==
    IF value.t = "int" THEN Ok(BsonDouble(2 * value.n))
    ELSE IF value.t = "float" THEN Ok(BsonDouble(value.h))
    ELSE Err("WrongInputType")

\* Value::Date(val).to_bson_value(): the day formatted as %Y-%m-%d, read back by
\* bson::DateTime::parse_rfc3339_str and unwrapped
DateToBsonValue(date) ==
    Match2(ParseRfc3339(FormatYmd(date)), LAMBDA ms : Ok(BsonDateTime(ms)), Panic)

\* Value::DateTime(val).to_bson_value()
DateTimeToBsonValue(ms) == Ok(BsonDateTime(ms))

parse_date(value) ==
    IF value.t = "str"
    THEN Match2(NaiveDateParse(Chars(value.s)),
                LAMBDA naive_date : DateToBsonValue(naive_date),
                Err("WrongDateFormat"))
    ELSE Err("WrongInputType")

parse_datetime(value) ==
    IF value.t = "str"
    THEN Match2(ParseRfc3339(Chars(value.s)),
                LAMBDA datetime : DateTimeToBsonValue(datetime),
                Err("WrongDatetimeFormat"))
    ELSE Err("WrongInputType")

parse_enum(value, enum_name) ==
    IF value.t = "str"
    THEN (IF value.s \in GraphEnum(enum_name)
          THEN Ok(BsonString(value.s))
          ELSE Err("UndefinedEnumValue"))
    ELSE Err("WrongInputType")

(***************************************************************************)
(* Filter-expression compiler.                                             *)
(***************************************************************************)
\* regex::escape: a backslash before every regex meta character
RegexMeta ==
    {"\\", ".", "+", "*", "?", "(", ")", "|", "[", "]", "{", "}", "^", "$", "#", "&", "-", "~"}

RECURSIVE RegexEscape(_)
RegexEscape(cs) ==
    IF cs = <<>> THEN <<>>
    ELSE (IF Head(cs) \in RegexMeta THEN <<"\\", Head(cs)>> ELSE <<Head(cs)>>)
         \o RegexEscape(Tail(cs))

\* the field types with an arm that does not panic
SupportedTypes ==
    {"ObjectId", "Bool", "String", "Date", "DateTime", "Enum"} \cup IntTypes \cup FloatTypes

\* the parser the operators of a field type hand their operand to
ScalarParser(field_type, value) ==
    CASE field_type.ft = "ObjectId" -> parse_object_id(value)
      [] field_type.ft = "Bool" -> parse_bool(value)
      [] field_type.ft \in IntTypes -> parse_i64(value)
      [] field_type.ft \in FloatTypes -> parse_f64(value)
      [] field_type.ft = "String" -> parse_string(value)
      [] field_type.ft = "Date" -> parse_date(value)
      [] field_type.ft = "DateTime" -> parse_datetime(value)
      [] field_type.ft = "Enum" -> parse_enum(value, field_type.enum)

\* the first branches of each field type: a bare scalar is an equality
BareScalar(field_type, value) ==
    CASE field_type.ft = "ObjectId" ->
           IF value.t = "str" THEN Some(parse_object_id(value)) ELSE None
      [] field_type.ft = "Bool" ->
           IF value.t = "bool" THEN Some(Ok(BsonBoolean(value.b))) ELSE None
      [] field_type.ft \in IntTypes ->
           IF value.t = "int" THEN Some(Ok(BsonInt64(value.n)))
           ELSE IF value.t = "float" THEN Some(Ok(BsonInt64(TruncHalves(value.h))))
           ELSE None
      [] field_type.ft \in FloatTypes ->
           IF value.t = "int" THEN Some(Ok(BsonDouble(2 * value.n)))
           ELSE IF value.t = "float" THEN Some(Ok(BsonDouble(value.h)))
           ELSE None
      [] field_type.ft = "String" ->
           IF value.t = "str" THEN Some(Ok(BsonString(value.s))) ELSE None
      [] field_type.ft = "Date" ->
           IF value.t = "str" THEN Some(parse_date(value)) ELSE None
      [] field_type.ft = "DateTime" ->
           IF value.t = "str" THEN Some(parse_datetime(value)) ELSE None
      [] field_type.ft = "Enum" ->
           IF value.t = "str" THEN Some(parse_enum(value, field_type.enum)) ELSE None

\* the native key `equals` and `not` insert
EqualityKey(key) == "$eq"

\* a variant that gives each ordering operator a native key of its own
ComparisonKey_ByOperator(key) == "$" \o key

\* the native key `gt`, `gte`, `lt` and `lte` insert
ComparisonKey(key) == "$gt"

\* the native key `in` and `notIn` insert
MembershipKey(key) == IF key = "in" THEN "$in" ELSE "$nin"

\* the element parser of `in` / `notIn`: the Enum arms parse the array itself
\* for every element
ElementParser(field_type, value, val) ==
    IF field_type.ft = "Enum"
    THEN parse_enum(value, field_type.enum)
    ELSE ScalarParser(field_type, val)

\* the loop over the elements of an `in` / `notIn` array from element i on
RECURSIVE ParseElements(_, _, _, _)
ParseElements(field_type, value, i, arr) ==
    IF i > Len(value.a) THEN Ok(arr)
    ELSE AndThen(ElementParser(field_type, value, value.a[i]),
                 LAMBDA b : ParseElements(field_type, value, i + 1, Append(arr, b)))

\* a variant that escapes nothing
RegexPattern_Raw(key, cs) ==
    CASE key = "contains" -> cs
      [] key = "startsWith" -> <<"^">> \o cs
      [] key = "endsWith" -> cs \o <<"$">>
      [] key = "matches" -> cs

\* the pattern of the regex operators of a String field
RegexPattern(key, cs) ==
    CASE key = "contains" -> RegexEscape(cs)
      [] key = "startsWith" -> <<"^">> \o RegexEscape(cs)
      [] key = "endsWith" -> RegexEscape(cs) \o <<"$">>
      [] key = "matches" -> cs

\* the options of the regex operators of a String field
RegexOptions(map) == IF has_i_mode(map) THEN "i" ELSE ""

\* a variant that gives the ordering operators to Enum fields too
OrderedTypes_WithEnum ==
    {"ObjectId", "String", "Date", "DateTime", "Enum"} \cup IntTypes \cup FloatTypes

\* the field types whose arms know gt, gte, lt, lte
OrderedTypes == {"ObjectId", "String", "Date", "DateTime"} \cup IntTypes \cup FloatTypes
\* the field types whose arms know in, notIn
MembershipTypes == OrderedTypes \cup {"Enum"}

\* one arm of the `match key.as_str()` of a field type: the document after it
WhereOperator(field_type, map, key, value, result_) ==
    CASE key \in {"equals", "not"} ->
           AndThen(ScalarParser(field_type, value),
                   LAMBDA b : Ok(DocInsert(result_, EqualityKey(key), b)))
      [] key \in {"gt", "gte", "lt", "lte"} /\ field_type.ft \in OrderedTypes ->
           AndThen(ScalarParser(field_type, value),
                   LAMBDA b : Ok(DocInsert(result_, ComparisonKey(key), b)))
      [] key \in {"in", "notIn"} /\ field_type.ft \in MembershipTypes ->
           IF value.t = "arr"
           THEN AndThen(ParseElements(field_type, value, 1, <<>>),
                        LAMBDA arr : Ok(DocInsert(result_, MembershipKey(key), BsonArray(arr))))
           ELSE Err("WrongInputType")
      [] key \in {"contains", "startsWith", "endsWith", "matches"}
           /\ field_type.ft = "String" ->
           AndThen(parse_string(value),
                   LAMBDA b : Ok(DocInsert(result_, "$regex",
                                   BsonRegex(RegexPattern(key, Chars(b.s)),
                                             RegexOptions(map)))))
      [] key = "mode" /\ field_type.ft = "String" -> Ok(result_)
      [] OTHER -> Err("WrongInputType")

\* the loop over the keys of an operator object from entry i on
RECURSIVE WhereOperators(_, _, _, _)
WhereOperators(field_type, map, i, result_) ==
    IF i > Len(map) THEN Ok(BsonDocument(result_))
    ELSE AndThen(WhereOperator(field_type, map, map[i][1], map[i][2], result_),
                 LAMBDA d : WhereOperators(field_type, map, i + 1, d))

\* the arm of a supported field type
WhereEntryOf(field_type, value, bare) ==
    IF bare.some THEN bare.v
    ELSE IF value.t = "obj" THEN WhereOperators(field_type, value.o, 1, <<>>)
    ELSE Err("WrongInputType")

parse_bson_where_entry(field_type, value) ==
    IF field_type.ft \notin SupportedTypes THEN Panic
    ELSE WhereEntryOf(field_type, value, BareScalar(field_type, value))

\* the body of the loop of build_where_input for a query-able key: doc after it
WhereEntry(field, value, doc) ==
    IF ~field.some THEN Panic
    ELSE AndThen(parse_bson_where_entry(field.v.field_type, value),
                 LAMBDA bson : Ok(DocInsert(doc, field.v.column, bson)))

\* a variant of the key check that asks only whether the model has the field
KeyAllowed_AnyField(model_, key) == ModelField(model_, key).some

\* the key check of the loop: model.query_keys().contains(key)
KeyAllowed(model_, key) == key \in QueryKeys(model_)

\* the loop of build_where_input from entry i on, doc being the document so far
RECURSIVE WhereEntries(_, _, _, _)
WhereEntries(model_, where_, i, doc) ==
    IF i > Len(where_) THEN Ok(doc)
    ELSE IF ~KeyAllowed(model_, where_[i][1]) THEN Err("KeysUnallowed")
    ELSE AndThen(WhereEntry(ModelField(model_, where_[i][1]), where_[i][2], doc),
                 LAMBDA d : WhereEntries(model_, where_, i + 1, d))

build_where_input(model_, where_) ==
    IF ~where_.some THEN Ok(<<>>)
    ELSE IF where_.v.t # "obj" THEN Err("WrongJsonFormat")
    ELSE WhereEntries(model_, where_.v.o, 1, <<>>)

\* a variant of the key-set check that accepts every superset of a unique key-set
UniqueKeySet_Covering(model_, keys) == \E u \in UniqueQueryKeys(model_) : u \subseteq keys

\* the key-set check: model.unique_query_keys().contains(&set)
UniqueKeySet(model_, keys) == keys \in UniqueQueryKeys(model_)

validate_where_unique(model_, where_) ==
    IF ~where_.some THEN Err("MissingInputSection")
    ELSE IF where_.v.t # "obj" THEN Err("WrongJsonFormat")
    ELSE IF ~UniqueKeySet(model_, JsonKeys(where_.v.o)) THEN Err("FieldIsNotUnique")
    ELSE Ok(<<>>)

(***************************************************************************)
(* Pipeline assembler and relation-inclusion compiler.                     *)
(***************************************************************************)
\* a Vec<Document> as the Bson array doc! makes of it
DocArray(docs) == BsonArray([i \in DOMAIN docs |-> BsonDocument(docs[i])])

\* a stage: a document of one entry
Stage(key, value) == << <<key, value>> >>

unwrap_usize(value) ==
    IF value.some
    THEN (IF value.v.t = "int" /\ value.v.n >= 0 THEN Ok(Some(value.v.n)) ELSE Panic)
    ELSE Ok(None)

\* the four unwrap_usize calls of build_query_pipeline_from_json, in their order
UnwrapPaging(json_value_) ==
    AndThen(unwrap_usize(JsonGet(json_value_, "take")), LAMBDA take :
    AndThen(unwrap_usize(JsonGet(json_value_, "skip")), LAMBDA skip :
    AndThen(unwrap_usize(JsonGet(json_value_, "pageNumber")), LAMBDA page_number :
    AndThen(unwrap_usize(JsonGet(json_value_, "pageSize")), LAMBDA page_size :
        Ok([take |-> take, skip |-> skip,
            page_number |-> page_number, page_size |-> page_size])))))

\* ((page_number - 1) * page_size) as i64 in usize arithmetic: with overflow checks
\* page_number 0 panics; without them the subtraction wraps, and the product, read
\* as an i64, is the signed product (the operands are far below 2^63)
PageSkip(overflow_checks_, page_number, page_size) ==
    IF page_number = 0 /\ overflow_checks_ THEN Panic
    ELSE Ok((page_number - 1) * page_size)

\* a variant with the operator key of the store
PagedLimitKey_Prefixed == "$limit"

\* the key of the limit stage of the pageNumber/pageSize branch
PagedLimitKey == "limit"

\* the key of the limit stage of the skip/take branch
RawLimitKey == "$limit"

\* the value of the limit stage of the skip/take branch: skip.unwrap()
RawLimitValue(take, skip) == IF skip.some THEN Ok(skip.v) ELSE Panic

\* the branch taken when page_size and page_number are both supplied
PagedStages(overflow_checks_, page_number, page_size) ==
    AndThen(PageSkip(overflow_checks_, page_number, page_size), LAMBDA s :
        Ok(<<Stage("$skip", BsonInt64(s)), Stage(PagedLimitKey, BsonInt64(page_size))>>))

\* the branch taken otherwise
RawStages(take, skip) ==
    IF take.some
    THEN AndThen(RawLimitValue(take, skip), LAMBDA l :
            Ok((IF skip.some THEN <<Stage("$skip", BsonInt64(skip.v))>> ELSE <<>>)
               \o <<Stage(RawLimitKey, BsonInt64(l))>>))
    ELSE Ok(IF skip.some THEN <<Stage("$skip", BsonInt64(skip.v))>> ELSE <<>>)

\* a variant that lets a supplied skip or take win over the page
IsPaged_UnlessRaw(paging_) ==
    /\ paging_.page_size.some /\ paging_.page_number.some
    /\ ~paging_.take.some /\ ~paging_.skip.some

\* which branch the "$skip and $limit" block takes
IsPaged(paging_) == paging_.page_size.some /\ paging_.page_number.some

\* the "$skip and $limit" block of build_query_pipeline: the stages it pushes
PagingStages(overflow_checks_, paging_) ==
    IF IsPaged(paging_)
    THEN PagedStages(overflow_checks_, paging_.page_number.v, paging_.page_size.v)
    ELSE RawStages(paging_.take, paging_.skip)

\* a variant that pushes the match stage whatever the document holds
MatchStages_Always(model_, where_) ==
    AndThen(build_where_input(model_, where_), LAMBDA match :
        Ok(<<Stage("$match", BsonDocument(match))>>))

\* the "$match" block of build_query_pipeline: the stages it pushes
MatchStages(model_, where_) ==
    AndThen(build_where_input(model_, where_), LAMBDA match :
        Ok(IF match # <<>> THEN <<Stage("$match", BsonDocument(match))>> ELSE <<>>))

\* a variant that passes the include section on in mutation mode too
IncludeSection_Always(mutation_mode_, json_value_) == JsonGet(json_value_, "include")

\* the include section build_query_pipeline_from_json passes on
IncludeSection(mutation_mode_, json_value_) ==
    IF ~mutation_mode_ THEN JsonGet(json_value_, "include") ELSE None

IsMatchStage(doc) == DocGet(doc, "$match").some

\* the let bindings, in the order of their inserts, and the $eq conditions of a
\* direct relation
DirectLet(model_, relation) ==
    [i \in DOMAIN relation.fields |->
        <<relation.references[i],
          BsonString("$" \o ColumnName(model_, relation.fields[i]))>>]

\* a variant that compares the referenced field by its name, not its column
DirectEq_ByName(relation) ==
    [i \in DOMAIN relation.fields |->
        BsonDocument(Stage("$eq", BsonArray(
            <<BsonString("$" \o relation.references[i]),
              BsonString("$$" \o relation.references[i])>>)))]

DirectEq(relation) ==
    [i \in DOMAIN relation.fields |->
        BsonDocument(Stage("$eq", BsonArray(
            <<BsonString("$" \o ColumnName(relation.model, relation.references[i])),
              BsonString("$$" \o relation.references[i])>>)))]

\* a document built by successive inserts
RECURSIVE InsertAll(_, _, _)
InsertAll(doc, pairs, i) ==
    IF i > Len(pairs) THEN doc
    ELSE InsertAll(DocInsert(doc, pairs[i][1], pairs[i][2]), pairs, i + 1)

\* doc with an entry `key` if it has none
Ensure(doc, key, value) == IF DocGet(doc, key).some THEN doc ELSE DocInsert(doc, key, value)

\* $expr with $and ensured and the equalities appended to it
ExtendAnd(expr, eq_values) ==
    DocInsert(expr, "$and",
        BsonArray(DocGet(Ensure(expr, "$and", BsonArray(<<>>)), "$and").v.a \o eq_values))

\* a variant that puts the equalities in the place of the nested filter
ExtendExpr_Replacing(inner, eq_values) ==
    Stage("$expr", BsonDocument(Stage("$and", BsonArray(eq_values))))

\* the $match document with $expr ensured and the equalities under its $and
ExtendExpr(inner, eq_values) ==
    DocInsert(inner, "$expr",
        BsonDocument(ExtendAnd(DocGet(Ensure(inner, "$expr", BsonDocument(<<>>)),
                                      "$expr").v.d, eq_values)))

\* the $match stage of a direct lookup: the nested pipeline's own (or an empty
\* one) with the correlation equalities appended under $expr.$and
MergeInnerMatch(inner_match, eq_values) ==
    DocInsert(inner_match, "$match",
        BsonDocument(ExtendExpr(DocGet(inner_match, "$match").v.d, eq_values)))

\* position of the first $match stage
FirstMatch(pipeline) ==
    CHOOSE i \in DOMAIN pipeline :
        /\ IsMatchStage(pipeline[i])
        /\ \A j \in 1..(i - 1) : ~IsMatchStage(pipeline[j])

\* the sub-pipeline of a direct lookup
DirectPipeline(inner_pipeline, eq_values) ==
    IF \E i \in DOMAIN inner_pipeline : IsMatchStage(inner_pipeline[i])
    THEN [inner_pipeline EXCEPT
            ![FirstMatch(inner_pipeline)] = MergeInnerMatch(@, eq_values)]
    ELSE <<MergeInnerMatch(Stage("$match", BsonDocument(<<>>)), eq_values)>>
         \o inner_pipeline

LookupStage(from, as, let, pipeline) ==
    Stage("$lookup", BsonDocument(
        << <<"from", BsonString(from)>>,
           <<"as", BsonString(as)>>,
           <<"let", BsonDocument(InsertAll(<<>>, let, 1))>>,
           <<"pipeline", DocArray(pipeline)>> >>))

DirectLookup(model_, relation, key, inner_pipeline) ==
    LookupStage(TableName(relation.model), key, DirectLet(model_, relation),
                DirectPipeline(inner_pipeline, DirectEq(relation)))

ExprAnd(eq_values) ==
    Stage("$match", BsonDocument(Stage("$expr", BsonDocument(Stage("$and",
        BsonArray(eq_values))))))

EqStrings(a, b) == BsonDocument(Stage("$eq", BsonArray(<<BsonString(a), BsonString(b)>>)))

\* the outer let and conditions of a lookup through a join table
OuterLet(model_, local) ==
    [i \in DOMAIN local.fields |->
        <<local.fields[i], BsonString("$" \o ColumnName(model_, local.references[i]))>>]

OuterEq(local) ==
    [i \in DOMAIN local.fields |->
        EqStrings("$" \o local.fields[i], "$$" \o local.fields[i])]

\* the inner let and conditions of a lookup through a join table
InnerLet(foreign) ==
    [i \in DOMAIN foreign.fields |->
        <<foreign.fields[i], BsonString("$" \o foreign.fields[i])>>]

InnerEq(foreign) ==
    [i \in DOMAIN foreign.fields |->
        EqStrings("$" \o ColumnName(foreign.model, foreign.references[i]),
                  "$$" \o foreign.fields[i])]

\* a variant that leaves the junction rows as they are
JoinLookupOf_Rows(model_, relation, join_model, local, foreign) ==
    LookupStage(TableName(join_model), relation.name, OuterLet(model_, local),
        << ExprAnd(OuterEq(local)),
           LookupStage(TableName(foreign.model), relation.name, InnerLet(foreign),
                       <<ExprAnd(InnerEq(foreign))>>) >>)

JoinLookupOf(model_, relation, join_model, local, foreign) ==
    LookupStage(TableName(join_model), relation.name, OuterLet(model_, local),
        << ExprAnd(OuterEq(local)),
           LookupStage(TableName(foreign.model), relation.name, InnerLet(foreign),
                       <<ExprAnd(InnerEq(foreign))>>),
           Stage("$unwind", BsonDocument(Stage("path", BsonString("$" \o relation.name)))),
           Stage("$replaceRoot",
                 BsonDocument(Stage("newRoot", BsonString("$" \o relation.name)))) >>)

\* the lookup of a relation through a join table
JoinLookup(model_, relation) ==
    JoinLookupOf(model_, relation, relation.through.v,
                 ModelRelation(relation.through.v, relation.fields[1]).v,
                 ModelRelation(relation.through.v, relation.references[1]).v)

RECURSIVE LookupEntry(_, _, _, _, _, _, _)
RECURSIVE LookupEntries(_, _, _, _, _, _, _)
RECURSIVE build_lookup_inputs(_, _, _, _, _)
RECURSIVE build_query_pipeline(_, _, _, _, _, _, _)
RECURSIVE build_query_pipeline_from_json(_, _, _, _, _)

\* a variant that takes every value that is no object for true
LookupEntry_Lenient(model_, type_, mutation_mode_, overflow_checks_, key, value, relation) ==
    IF ~relation.some
    THEN ErrMsg("InvalidQueryInput", "Relation '" \o key \o "' on model '" \o model_
                \o "' is not exist. Please check your input.")
    ELSE IF ~relation.v.through.some
    THEN AndThen(IF value.t = "obj"
                 THEN build_query_pipeline_from_json(relation.v.model, type_,
                          mutation_mode_, overflow_checks_, value)
                 ELSE Ok(<<>>),
                 LAMBDA inner_pipeline :
                     Ok(DirectLookup(model_, relation.v, key, inner_pipeline)))
    ELSE Ok(JoinLookup(model_, relation.v))

\* a variant that compiles the nested query description of a relation through a
\* join table too, and returns its error
LookupEntry_NestedJunction(model_, type_, mutation_mode_, overflow_checks_, key, value, relation) ==
    IF ~relation.some
    THEN ErrMsg("InvalidQueryInput", "Relation '" \o key \o "' on model '" \o model_
                \o "' is not exist. Please check your input.")
    ELSE IF value.t \in {"bool", "obj"}
    THEN AndThen(IF value.t = "obj"
                 THEN build_query_pipeline_from_json(relation.v.model, type_,
                          mutation_mode_, overflow_checks_, value)
                 ELSE Ok(<<>>),
                 LAMBDA inner_pipeline :
                     IF ~relation.v.through.some
                     THEN Ok(DirectLookup(model_, relation.v, key, inner_pipeline))
                     ELSE Ok(JoinLookup(model_, relation.v)))
    ELSE ErrMsg("InvalidQueryInput", "Relation '" \o key \o "' on model '" \o model_
                \o "' has a unrecognized value. It's either a boolean or an object. Please check your input.")

\* the body of the loop of build_lookup_inputs: the lookup of one include entry
LookupEntry(model_, type_, mutation_mode_, overflow_checks_, key, value, relation) ==
    IF ~relation.some
    THEN ErrMsg("InvalidQueryInput", "Relation '" \o key \o "' on model '" \o model_
                \o "' is not exist. Please check your input.")
    ELSE IF value.t \in {"bool", "obj"}
    THEN IF ~relation.v.through.some
         THEN AndThen(IF value.t = "obj"
                      THEN build_query_pipeline_from_json(relation.v.model, type_,
                               mutation_mode_, overflow_checks_, value)
                      ELSE Ok(<<>>),
                      LAMBDA inner_pipeline :
                          Ok(DirectLookup(model_, relation.v, key, inner_pipeline)))
         ELSE Ok(JoinLookup(model_, relation.v))
    ELSE ErrMsg("InvalidQueryInput", "Relation '" \o key \o "' on model '" \o model_
                \o "' has a unrecognized value. It's either a boolean or an object. Please check your input.")

\* a variant that emits no lookup for an entry of the value false
LookupEntries_SkipFalse(model_, type_, mutation_mode_, overflow_checks_, include_, i, retval_) ==
    IF i > Len(include_) THEN Ok(retval_)
    ELSE IF include_[i][2] = JBool(FALSE)
    THEN LookupEntries(model_, type_, mutation_mode_, overflow_checks_,
                       include_, i + 1, retval_)
    ELSE AndThen(LookupEntry(model_, type_, mutation_mode_, overflow_checks_,
                             include_[i][1], include_[i][2],
                             ModelRelation(model_, include_[i][1])),
                 LAMBDA lookup :
                     LookupEntries(model_, type_, mutation_mode_, overflow_checks_,
                                   include_, i + 1, Append(retval_, lookup)))

\* the loop of build_lookup_inputs from entry i on, retval being the lookups so far
LookupEntries(model_, type_, mutation_mode_, overflow_checks_, include_, i, retval_) ==
    IF i > Len(include_) THEN Ok(retval_)
    ELSE AndThen(LookupEntry(model_, type_, mutation_mode_, overflow_checks_,
                             include_[i][1], include_[i][2],
                             ModelRelation(model_, include_[i][1])),
                 LAMBDA lookup :
                     LookupEntries(model_, type_, mutation_mode_, overflow_checks_,
                                   include_, i + 1, Append(retval_, lookup)))

build_lookup_inputs(model_, type_, mutation_mode_, overflow_checks_, include_) ==
    IF include_.t # "obj"
    THEN ErrMsg("InvalidQueryInput", "'include' on model '" \o model_
                \o "' is not an object. Please check your input.")
    ELSE LookupEntries(model_, type_, mutation_mode_, overflow_checks_, include_.o, 1, <<>>)

\* the "$lookup" block of build_query_pipeline: the stages it appends
LookupStages(model_, type_, mutation_mode_, overflow_checks_, include_) ==
    IF include_.some
    THEN build_lookup_inputs(model_, type_, mutation_mode_, overflow_checks_, include_.v)
    ELSE Ok(<<>>)

build_query_pipeline(model_, type_, mutation_mode_, overflow_checks_, where_, paging_, include_) ==
    AndThen(MatchStages(model_, where_), LAMBDA match :
    AndThen(PagingStages(overflow_checks_, paging_), LAMBDA stages :
    AndThen(LookupStages(model_, type_, mutation_mode_, overflow_checks_, include_),
            LAMBDA lookups : Ok(match \o stages \o lookups))))

\* a variant that validates the unique where only after the filter has compiled
ValidateStep_AfterMatch(model_, type_, where_) ==
    AndThen(build_where_input(model_, where_), LAMBDA match :
        IF type_ = "Unique" THEN validate_where_unique(model_, where_) ELSE Ok(<<>>))

\* the unique-where validation of build_query_pipeline_from_json
ValidateStep(model_, type_, where_) ==
    IF type_ = "Unique" THEN validate_where_unique(model_, where_) ELSE Ok(<<>>)

build_query_pipeline_from_json(model_, type_, mutation_mode_, overflow_checks_, json_value_) ==
    IF json_value_.t # "obj"
    THEN ErrMsg("InvalidQueryInput", "Query input should be an object.")
    ELSE AndThen(ValidateStep(model_, type_, JsonGet(json_value_.o, "where")), LAMBDA valid :
         AndThen(UnwrapPaging(json_value_.o), LAMBDA paging_ :
             build_query_pipeline(model_, type_, mutation_mode_, overflow_checks_,
                 JsonGet(json_value_.o, "where"), paging_,
                 IncludeSection(mutation_mode_, json_value_.o))))

(***************************************************************************)
(* Inputs.                                                                 *)
(***************************************************************************)
\* the largest take / skip / pageNumber / pageSize of a query description
MaxNum == 2
\* the largest number of elements of an `in` / `notIn` array
MaxArrayLen == 2
\* the largest number of keys of a where-object of the filter specification
MaxWhereKeys == 2
\* the largest number of keys of an operator object of several keys
MaxOperators == 2

QueryPipelineType == {"Unique", "First", "Many"}

Section(key, value) == IF value.some THEN << <<key, value.v>> >> ELSE <<>>

\* a query description with the given optional sections
Query(where_, take, skip, page_number, page_size, include_) ==
    JObj(Section("where", where_) \o Section("take", take) \o Section("skip", skip)
         \o Section("pageNumber", page_number) \o Section("pageSize", page_size)
         \o Section("include", include_))

\* the query description with its section `key` replaced (or dropped, or added)
WithSection(json_value_, key, value) ==
    JObj(SelectSeq(json_value_.o, LAMBDA e : e[1] # key) \o Section(key, value))

Obj1(k, v) == JObj(<< <<k, v>> >>)
Obj2(k1, v1, k2, v2) == JObj(<< <<k1, v1>>, <<k2, v2>> >>)

\* where sections of a query on Post
PostWheres ==
    {None,
     Some(JStr("abc")),
     Some(JObj(<<>>)),
     Some(Obj1("id", JStr(OidLower))),
     Some(Obj1("slug", JStr("abc"))),
     Some(Obj1("title", JStr("abc"))),
     Some(Obj2("slug", JStr("abc"), "title", JStr("x"))),
     Some(Obj2("views", Obj1("gt", JInt(1)), "slug", JStr("x"))),
     Some(Obj1("bogus", JInt(1))),
     Some(Obj1("id", JInt(30))),
     Some(Obj2("title", JInt(30), "bogus", JInt(1)))}

\* include sections of a query on Post
PostIncludes ==
    {None,
     Some(JBool(TRUE)),
     Some(JObj(<<>>)),
     Some(Obj1("author", JBool(TRUE))),
     Some(Obj1("author", JBool(FALSE))),
     Some(Obj1("tags", JBool(TRUE))),
     Some(Obj1("tags", JObj(<<>>))),
     Some(Obj2("author", JBool(TRUE), "tags", JBool(TRUE))),
     Some(Obj2("tags", JBool(TRUE), "author", JBool(TRUE))),
     Some(Obj1("author", JObj(<<>>))),
     Some(Obj1("author", Obj1("where", Obj1("name", JStr("abc"))))),
     Some(Obj1("author", Obj1("where", Obj1("id", JStr(OidLower))))),
     Some(Obj1("author", Obj2("skip", JInt(1), "take", JInt(1)))),
     Some(Obj1("author", Obj1("include", Obj1("posts", JBool(TRUE))))),
     Some(Obj1("nonexistent", JBool(TRUE))),
     Some(Obj1("author", JInt(1))),
     Some(Obj2("author", JInt(1), "nonexistent", JBool(TRUE)))}

\* a take / skip / pageNumber / pageSize section: absent, a count, or not a count
Counts == {None, Some(JInt(-1))} \cup {Some(JInt(n)) : n \in 0..MaxNum}

SomeWheres ==
    {None, Some(Obj1("slug", JStr("abc"))), Some(Obj1("title", JInt(30)))}
SomeIncludes ==
    {None, Some(Obj1("author", JBool(TRUE))), Some(Obj1("nonexistent", JBool(TRUE)))}
SomePagings ==
    {<<None, None, None, None>>,
     <<Some(JInt(1)), Some(JInt(1)), None, None>>,
     <<None, None, Some(JInt(1)), Some(JInt(1))>>}

\* the query descriptions compiled: every where and include with some pagings,
\* every paging with some wheres and includes, and one that is no object
QueryInputs ==
    {Query(w, p[1], p[2], p[3], p[4], i) :
        w \in PostWheres, p \in SomePagings, i \in PostIncludes}
    \cup {Query(w, t, s, pn, ps, i) :
        w \in SomeWheres, t \in Counts, s \in Counts, pn \in Counts, ps \in Counts,
        i \in SomeIncludes}
    \cup {JStr("abc")}

\* JSON leaves handed to the filter compiler
Scalars ==
    {JNull, JBool(TRUE), JInt(30), JInt(-7), JFloat(61), JFloat(-3),
     JStr("abc"), JStr("a.b"), JStr(OidLower), JStr(OidUpper),
     JStr("1970-01-02"), JStr("1970-02-30"),
     JStr("1970-01-02T00:00:00Z"), JStr("1970-01-02T01:00:00+01:00"),
     JStr("ADMIN")}

ArrayElements ==
    {JBool(TRUE), JInt(30), JStr("abc"), JStr("ADMIN"), JStr(OidLower),
     JStr("1970-01-02"), JStr("1970-01-02T00:00:00Z")}

Arrays == {JArr(a) : a \in UNION {[1..n -> ArrayElements] : n \in 0..MaxArrayLen}}

OperatorNames ==
    {"equals", "not", "gt", "gte", "lt", "lte", "in", "notIn",
     "contains", "startsWith", "endsWith", "matches", "mode", "bogus"}

\* the arrays handed to the operators that take none
SomeArrays == {JArr(<<>>), JArr(<<JInt(30)>>)}

\* the values of a where entry: a leaf, or an object of one operator
EntryValues ==
    Scalars \cup Arrays
    \cup {Obj1(op, v) : op \in OperatorNames, v \in Scalars \cup SomeArrays}
    \cup {Obj1(op, v) : op \in {"in", "notIn"}, v \in Arrays}

UserKeys ==
    {"id", "name", "age", "score", "active", "birthday", "createdAt", "role",
     "balance", "password", "bogus"}

\* the entries where-objects of several keys are made of
SomeEntries ==
    {<<"id", JStr(OidLower)>>, <<"id", JInt(30)>>, <<"name", JStr("abc")>>,
     <<"age", JInt(30)>>, <<"age", JStr("abc")>>, <<"bogus", JInt(1)>>,
     <<"password", JStr("abc")>>, <<"birthday", JStr("1970-01-02")>>}

DistinctKeys(o) == \A i, j \in DOMAIN o : o[i][1] = o[j][1] => i = j

\* the models of the schema
Models == {"User", "Post", "Tag", "PostTag", "Profile"}

\* the keys of include objects: the relations of the schema and one that is none
IncludeKeys == {"author", "tags", "posts", "post", "tag", "user", "nonexistent"}

\* nested query descriptions of an include entry
NestedQueries ==
    {Query(w, None, None, None, None, None) :
        w \in {Some(JObj(<<>>)), Some(Obj1("name", JStr("abc"))),
               Some(Obj1("slug", JStr("abc"))), Some(Obj1("id", JStr(OidLower))),
               Some(Obj2("name", JStr("abc"), "age", JInt(30))),
               Some(Obj1("bogus", JInt(1)))}}
    \cup {Query(w, Some(JInt(1)), Some(JInt(2)), None, None, i) :
        w \in {None, Some(Obj1("name", JStr("abc"))), Some(Obj1("slug", JStr("abc")))},
        i \in {None, Some(Obj1("posts", JBool(TRUE))), Some(Obj1("author", JBool(TRUE))),
               Some(Obj1("tags", JBool(TRUE)))}}
    \cup {Query(None, Some(JInt(1)), None, None, None, None)}

\* the values of an include entry
IncludeValues ==
    {JBool(TRUE), JBool(FALSE), JNull, JInt(1), JStr("abc"), JArr(<<>>)} \cup NestedQueries

\* the entries include objects of two keys are made of
SomeIncludeEntries ==
    {<<"author", JBool(TRUE)>>, <<"tags", JBool(TRUE)>>, <<"nonexistent", JBool(TRUE)>>,
     <<"author", JInt(1)>>, <<"tags", JStr("abc")>>,
     <<"author", Obj1("where", Obj1("bogus", JInt(1)))>>,
     <<"author", Obj1("take", JInt(1))>>,
     <<"post", JBool(TRUE)>>, <<"tag", JBool(TRUE)>>}

\* the include sections handed to the inclusion compiler
IncludeInputs ==
    {JBool(TRUE), JStr("abc"), JObj(<<>>)}
    \cup {Obj1(k, v) : k \in IncludeKeys, v \in IncludeValues}
    \cup {JObj(o) : o \in {e \in [1..2 -> SomeIncludeEntries] : DistinctKeys(e)}}

\* the entries operator objects of several keys are made of
OperatorEntries ==
    {<<op, JStr("a.b")>> : op \in {"contains", "startsWith", "endsWith", "matches"}}
    \cup {<<"mode", m>> : m \in {JStr("caseInsensitive"), JStr("abc"), JInt(30), JNull}}
    \cup {<<"equals", v>> : v \in {JStr("abc"), JStr("ADMIN"), JInt(30), JBool(TRUE),
                                   JStr("1970-01-02"), JStr("1970-02-30")}}
    \cup {<<"gt", JStr("ADMIN")>>, <<"gt", JInt(30)>>, <<"bogus", JInt(1)>>,
          <<"in", JArr(<<>>)>>}
    \cup {<<op, v>> : op \in {"not", "lt"}, v \in {JStr("x"), JInt(7)}}

\* operator objects of several keys
OperatorObjects ==
    {JObj(o) : o \in {e \in UNION {[1..n -> OperatorEntries] : n \in 2..MaxOperators} :
                         DistinctKeys(e)}}

\* the fields of User of a scalar type with an arm
ScalarFields == {"id", "name", "age", "score", "active", "birthday", "createdAt", "role"}

\* the where sections handed to the filter compiler, on User: of one entry,
\* of one entry of several operators, of several entries
EntryWheres ==
    {None, Some(JStr("abc")), Some(JObj(<<>>))}
    \cup {Some(Obj1(k, v)) : k \in UserKeys, v \in EntryValues}
OperatorWheres == {Some(Obj1(k, o)) : k \in ScalarFields, o \in OperatorObjects}
ObjectWheres ==
    {Some(JObj(o)) : o \in {e \in UNION {[1..n -> SomeEntries] : n \in 2..MaxWhereKeys} :
                               DistinctKeys(e)}}

(***************************************************************************)
(* One call of build_query_pipeline_from_json, block by block.             *)
(***************************************************************************)
VARIABLES
    model,            \* the Model queried
    type,             \* QueryPipelineType
    mutation_mode,
    overflow_checks,  \* whether the build panics on arithmetic overflow
    json_value,       \* the query description
    pc,               \* the block the call is at
    where,            \* Option: the where section
    paging,           \* take, skip, page_number, page_size as Option<usize>
    include,          \* Option: the include section passed on
    retval,           \* the stages pushed so far
    result,           \* the Result returned, NotYet before
    trace,            \* the blocks that have run
    unique_result,    \* filter specification: what validate_where_unique returned
    where_result      \* filter specification: what build_where_input returned

vars == <<model, type, mutation_mode, overflow_checks, json_value, pc, where, paging,
          include, retval, result, trace, unique_result, where_result>>

NotYet == [k |-> "NotYet"]
NoPaging == [take |-> None, skip |-> None, page_number |-> None, page_size |-> None]

inputs == <<model, type, mutation_mode, overflow_checks, json_value>>

Init ==
    /\ model = "Post"
    /\ type \in QueryPipelineType
    /\ mutation_mode \in BOOLEAN
    /\ overflow_checks \in BOOLEAN
    /\ json_value \in QueryInputs
    /\ pc = "entry"
    /\ where = None
    /\ paging = NoPaging
    /\ include = None
    /\ retval = <<>>
    /\ result = NotYet
    /\ trace = <<>>
    /\ unique_result = NotYet
    /\ where_result = NotYet

\* the block at pc runs
At(block) ==
    /\ pc = block
    /\ trace' = Append(trace, block)
    /\ UNCHANGED <<inputs, unique_result, where_result>>

\* returning r ends the call
Return(r) ==
    /\ result' = r
    /\ pc' = "done"

\* a variant of r? that goes on to block next whatever r is
Try_GoingOn(r, next) == pc' = next /\ result' = IF IsOk(r) THEN result ELSE r

\* r? : on Ok the call goes on to block next, anything else is returned
Try(r, next) == IF IsOk(r) THEN pc' = next /\ UNCHANGED result ELSE Return(r)

\* json_value.as_object(), json_value.get("where")
Entry ==
    /\ At("entry")
    /\ IF json_value.t # "obj"
       THEN /\ Return(ErrMsg("InvalidQueryInput", "Query input should be an object."))
            /\ UNCHANGED where
       ELSE /\ where' = JsonGet(json_value.o, "where")
            /\ pc' = "validate"
            /\ UNCHANGED result
    /\ UNCHANGED <<paging, include, retval>>

\* if r#type == Unique { validate_where_unique(model, &r#where)?; }
Validate ==
    /\ At("validate")
    /\ Try(ValidateStep(model, type, where), "unwrap")
    /\ UNCHANGED <<where, paging, include, retval>>

\* what the unwrap block leaves in paging
Unwrapped(p) == IF IsOk(p) THEN p.v ELSE NoPaging

\* the unwrap_usize calls and the include section
Unwrap ==
    /\ At("unwrap")
    /\ Try(UnwrapPaging(json_value.o), "match")
    /\ paging' = Unwrapped(UnwrapPaging(json_value.o))
    /\ include' = IF IsOk(UnwrapPaging(json_value.o))
                  THEN IncludeSection(mutation_mode, json_value.o) ELSE include
    /\ UNCHANGED <<where, retval>>

\* a variant that puts the stages of a block in front of the earlier ones
Push_Front(stages, next) ==
    /\ Try(stages, next)
    /\ retval' = IF IsOk(stages) THEN stages.v \o retval ELSE retval

\* the stages of a block are pushed, or its error returned
Push(stages, next) ==
    /\ Try(stages, next)
    /\ retval' = IF IsOk(stages) THEN retval \o stages.v ELSE retval

\* build_query_pipeline: $match
Match ==
    /\ At("match")
    /\ Push(MatchStages(model, where), "paging")
    /\ UNCHANGED <<where, paging, include>>

\* build_query_pipeline: $skip and $limit
Paging ==
    /\ At("paging")
    /\ Push(PagingStages(overflow_checks, paging), "lookup")
    /\ UNCHANGED <<where, paging, include>>

\* build_query_pipeline: $lookup
Lookup ==
    /\ At("lookup")
    /\ Push(LookupStages(model, type, mutation_mode, overflow_checks, include), "return")
    /\ UNCHANGED <<where, paging, include>>

\* build_query_pipeline: Ok(retval)
ReturnPlan ==
    /\ At("return")
    /\ Return(Ok(retval))
    /\ UNCHANGED <<where, paging, include, retval>>

Next == Entry \/ Validate \/ Unwrap \/ Match \/ Paging \/ Lookup \/ ReturnPlan

Spec == Init /\ [][Next]_vars

(***************************************************************************)
(* The filter compiler on its own: validate_where_unique and               *)
(* build_where_input applied to a where section.                           *)
(***************************************************************************)
WhereInit ==
    /\ model = "User"
    /\ type = "Unique"
    /\ mutation_mode = FALSE
    /\ overflow_checks = FALSE
    /\ json_value = JNull
    /\ pc = "filter"
    /\ (where \in EntryWheres \/ where \in OperatorWheres \/ where \in ObjectWheres)
    /\ paging = NoPaging
    /\ include = None
    /\ retval = <<>>
    /\ result = NotYet
    /\ trace = <<>>
    /\ unique_result = NotYet
    /\ where_result = NotYet

ValidateWhere ==
    /\ pc = "filter"
    /\ unique_result = NotYet
    /\ unique_result' = validate_where_unique(model, where)
    /\ UNCHANGED <<inputs, pc, where, paging, include, retval, result, trace, where_result>>

BuildWhere ==
    /\ pc = "filter"
    /\ where_result = NotYet
    /\ where_result' = build_where_input(model, where)
    /\ UNCHANGED <<inputs, pc, where, paging, include, retval, result, trace, unique_result>>

WhereNext == ValidateWhere \/ BuildWhere

WhereSpec == WhereInit /\ [][WhereNext]_vars

(***************************************************************************)
(* The inclusion compiler on its own: build_lookup_inputs applied to an    *)
(* include section, on every model of the schema.                          *)
(***************************************************************************)
LookupInit ==
    /\ model \in Models
    /\ type \in QueryPipelineType
    /\ mutation_mode = FALSE
    /\ overflow_checks \in BOOLEAN
    /\ json_value = JNull
    /\ pc = "include"
    /\ where = None
    /\ paging = NoPaging
    /\ include \in {Some(i) : i \in IncludeInputs}
    /\ retval = <<>>
    /\ result = NotYet
    /\ trace = <<>>
    /\ unique_result = NotYet
    /\ where_result = NotYet

BuildLookups ==
    /\ pc = "include"
    /\ result = NotYet
    /\ result' = build_lookup_inputs(model, type, mutation_mode, overflow_checks, include.v)
    /\ UNCHANGED <<inputs, pc, where, paging, include, retval, trace, unique_result,
                   where_result>>

LookupNext == BuildLookups

LookupSpec == LookupInit /\ [][LookupNext]_vars

\* the call block by block returns what the function returns
StepsAgree ==
    pc = "done" =>
        result = build_query_pipeline_from_json(model, type, mutation_mode,
                                                overflow_checks, json_value)

(***************************************************************************)
(* The native value the scalar parsers of section 4.2 of the               *)
(* specification give a leaf: Some(native) where the leaf is valid for     *)
(* the field type, None where it is not.                                   *)
(***************************************************************************)
ExpectedNative(field_type, v) ==
    CASE field_type.ft = "ObjectId" ->
           IF v \in {JStr(OidLower), JStr(OidUpper)}
           THEN Some(BsonObjectId([i \in 1..24 |-> 10])) ELSE None
      [] field_type.ft = "Bool" ->
           IF v = JBool(TRUE) THEN Some(BsonBoolean(TRUE)) ELSE None
      [] field_type.ft \in IntTypes ->
           IF v = JInt(30) \/ v = JFloat(61) THEN Some(BsonInt64(30))
           ELSE IF v = JInt(-7) THEN Some(BsonInt64(-7))
           ELSE IF v = JFloat(-3) THEN Some(BsonInt64(-1))
           ELSE None
      [] field_type.ft \in FloatTypes ->
           IF v = JInt(30) THEN Some(BsonDouble(60))
           ELSE IF v = JInt(-7) THEN Some(BsonDouble(-14))
           ELSE IF v = JFloat(61) THEN Some(BsonDouble(61))
           ELSE IF v = JFloat(-3) THEN Some(BsonDouble(-3))
           ELSE None
      [] field_type.ft = "String" ->
           IF v.t = "str" THEN Some(BsonString(v.s)) ELSE None
      [] field_type.ft = "Date" ->
           IF v = JStr("1970-01-02") THEN Some(BsonDateTime(86400000)) ELSE None
      [] field_type.ft = "DateTime" ->
           IF v \in {JStr("1970-01-02T00:00:00Z"), JStr("1970-01-02T01:00:00+01:00")}
           THEN Some(BsonDateTime(86400000)) ELSE None
      [] field_type.ft = "Enum" ->
           IF v = JStr("ADMIN") THEN Some(BsonString("ADMIN")) ELSE None
      [] OTHER -> None

FieldTypeOf(model_, key) == ModelField(model_, key).v.field_type

\* the fields of the ordered types: object-id, integer, float, string, date, date-time
OrderedKeys == {"id", "name", "age", "score", "birthday", "createdAt"}
\* the fields of the scalar types: the ordered ones, bool and enum
ScalarKeys == OrderedKeys \cup {"active", "role"}

\* build_where_input has compiled the where-object {k: value}
Compiled(k, value) == where_result # NotYet /\ where = Some(Obj1(k, value))

\* the match document of the single predicate `predicate` on the column of k
OnePredicate(k, predicate) == Ok(<< <<ColumnName(model, k), predicate>> >>)

(***************************************************************************)
(* C1.  For every field type, a where-object of one key whose value is a   *)
(* bare scalar valid for the type compiles to one $match stage of one      *)
(* entry, keyed by the field's column and holding the parsed native value. *)
(* Stated as the claim has it; the code panics on every valid Date.        *)
(***************************************************************************)
C1_BareScalarIsEquality ==
    \A k \in QueryKeys(model), v \in Scalars :
        (Compiled(k, v) /\ ExpectedNative(FieldTypeOf(model, k), v).some)
            => /\ where_result = OnePredicate(k, ExpectedNative(FieldTypeOf(model, k), v).v)
               /\ MatchStages(model, where)
                    = Ok(<<Stage("$match", BsonDocument(where_result.v))>>)

\* C1 away from Date fields
BareScalarIsEqualityButDate ==
    \A k \in QueryKeys(model) \ {"birthday"}, v \in Scalars :
        (Compiled(k, v) /\ ExpectedNative(FieldTypeOf(model, k), v).some)
            => /\ where_result = OnePredicate(k, ExpectedNative(FieldTypeOf(model, k), v).v)
               /\ MatchStages(model, where)
                    = Ok(<<Stage("$match", BsonDocument(where_result.v))>>)

(***************************************************************************)
(* C2.  For every ordered field type and valid operand v, {gt: v},         *)
(* {gte: v}, {lt: v} and {lte: v} all compile to {$gt: native(v)}.         *)
(* Stated as the claim has it; the code panics on every valid Date.        *)
(***************************************************************************)
C2_ComparisonsAreGt ==
    \A k \in OrderedKeys, op \in {"gt", "gte", "lt", "lte"}, v \in Scalars :
        (Compiled(k, Obj1(op, v)) /\ ExpectedNative(FieldTypeOf(model, k), v).some)
            => where_result = OnePredicate(k, BsonDocument(
                   Stage("$gt", ExpectedNative(FieldTypeOf(model, k), v).v)))

\* C2 away from Date fields
ComparisonsAreGtButDate ==
    \A k \in OrderedKeys \ {"birthday"}, op \in {"gt", "gte", "lt", "lte"}, v \in Scalars :
        (Compiled(k, Obj1(op, v)) /\ ExpectedNative(FieldTypeOf(model, k), v).some)
            => where_result = OnePredicate(k, BsonDocument(
                   Stage("$gt", ExpectedNative(FieldTypeOf(model, k), v).v)))

(***************************************************************************)
(* C3.  For every scalar field type and valid operand v, {equals: v} and   *)
(* {not: v} both compile to {$eq: native(v)}.                              *)
(* Stated as the claim has it; the code panics on every valid Date.        *)
(***************************************************************************)
C3_EqualsAndNotAreEq ==
    \A k \in ScalarKeys, op \in {"equals", "not"}, v \in Scalars :
        (Compiled(k, Obj1(op, v)) /\ ExpectedNative(FieldTypeOf(model, k), v).some)
            => where_result = OnePredicate(k, BsonDocument(
                   Stage("$eq", ExpectedNative(FieldTypeOf(model, k), v).v)))

\* C3 away from Date fields
EqualsAndNotAreEqButDate ==
    \A k \in ScalarKeys \ {"birthday"}, op \in {"equals", "not"}, v \in Scalars :
        (Compiled(k, Obj1(op, v)) /\ ExpectedNative(FieldTypeOf(model, k), v).some)
            => where_result = OnePredicate(k, BsonDocument(
                   Stage("$eq", ExpectedNative(FieldTypeOf(model, k), v).v)))

\* entry compiles: its key is query-able and its value parses for the field
EntryCompiles(entry) ==
    /\ entry[1] \in QueryKeys(model)
    /\ IsOk(parse_bson_where_entry(FieldTypeOf(model, entry[1]), entry[2]))

QueryColumns == {ColumnName(model, k) : k \in QueryKeys(model)}

(***************************************************************************)
(* C4.  build_where_input answers KeysUnallowed as soon as it comes to a   *)
(* key that is not query-able (the entries before it having compiled),     *)
(* and only then; a document it returns has one entry per key of the       *)
(* where-object, in order, each on the column of a query-able field.       *)
(***************************************************************************)
C4_UnallowedKeyRejected ==
    (where_result # NotYet /\ where.some /\ where.v.t = "obj") =>
        /\ \A i \in DOMAIN where.v.o :
               (/\ where.v.o[i][1] \notin QueryKeys(model)
                /\ \A j \in 1..(i - 1) : EntryCompiles(where.v.o[j]))
                   => where_result = Err("KeysUnallowed")
        /\ where_result = Err("KeysUnallowed")
               => \E i \in DOMAIN where.v.o : where.v.o[i][1] \notin QueryKeys(model)
        /\ IsOk(where_result) =>
               /\ Len(where_result.v) = Len(where.v.o)
               /\ \A i \in DOMAIN where.v.o :
                      /\ where.v.o[i][1] \in QueryKeys(model)
                      /\ where_result.v[i][1] = ColumnName(model, where.v.o[i][1])
               /\ \A i \in DOMAIN where_result.v : where_result.v[i][1] \in QueryColumns

\* a where-object whose second key is a field that is not query-able was rejected
C4_Witness ==
    /\ where = Some(Obj2("age", JInt(30), "password", JStr("abc")))
    /\ where_result = Err("KeysUnallowed")

\* the where section is an object whose key set is one of the unique key-sets
ExactUniqueKeys ==
    /\ where.some
    /\ where.v.t = "obj"
    /\ \E u \in UniqueQueryKeys(model) :
           /\ \A k \in u : \E i \in DOMAIN where.v.o : where.v.o[i][1] = k
           /\ \A i \in DOMAIN where.v.o : where.v.o[i][1] \in u

(***************************************************************************)
(* C5.  validate_where_unique succeeds exactly when the where section is   *)
(* an object whose key set equals one of the model's unique key-sets; it   *)
(* answers MissingInputSection for an absent section, WrongJsonFormat for  *)
(* one that is not an object and FieldIsNotUnique for every other object.  *)
(***************************************************************************)
C5_UniqueIffExactKeySet ==
    unique_result # NotYet =>
        /\ IsOk(unique_result) <=> ExactUniqueKeys
        /\ ~where.some => unique_result = Err("MissingInputSection")
        /\ (where.some /\ where.v.t # "obj") => unique_result = Err("WrongJsonFormat")
        /\ (where.some /\ where.v.t = "obj" /\ ~ExactUniqueKeys)
               => unique_result = Err("FieldIsNotUnique")

\* a key set strictly larger than the unique key-set {id} was rejected
C5_Witness ==
    /\ where = Some(Obj2("id", JStr(OidLower), "name", JStr("abc")))
    /\ unique_result = Err("FieldIsNotUnique")

\* the call has returned
Done == pc = "done"

\* the error validate_where_unique owes the where section of the query
UniqueError ==
    IF ~where.some THEN Err("MissingInputSection")
    ELSE IF where.v.t # "obj" THEN Err("WrongJsonFormat")
    ELSE Err("FieldIsNotUnique")

(***************************************************************************)
(* C6.  In a Unique compile the unique-where validation runs before the    *)
(* pagination sections are read and before match, pagination and lookup    *)
(* compilation: a where section that is no exact unique key-set fails the  *)
(* call with the unique-validation error, whatever else is wrong with the  *)
(* query, and nothing has been compiled by then.                           *)
(***************************************************************************)
C6_UniqueValidationFirst ==
    (Done /\ type = "Unique" /\ json_value.t = "obj") =>
        /\ trace[1] = "entry" /\ trace[2] = "validate"
        /\ \A i \in DOMAIN trace : trace[i] = "validate" => i = 2
        /\ ~ExactUniqueKeys =>
               /\ result = UniqueError
               /\ trace = <<"entry", "validate">>
               /\ retval = <<>> /\ paging = NoPaging /\ include = None

\* a where with an ill-typed value and an unallowed key failed as not unique
C6_Witness ==
    /\ Done /\ type = "Unique"
    /\ where = Some(Obj2("title", JInt(30), "bogus", JInt(1)))
    /\ result = Err("FieldIsNotUnique")

\* the place of a stage in a plan: match, skip, limit, lookup
StageRank(stage) ==
    CASE stage[1][1] = "$match" -> 0
      [] stage[1][1] = "$skip" -> 1
      [] stage[1][1] \in {"limit", "$limit"} -> 2
      [] stage[1][1] = "$lookup" -> 3
      [] OTHER -> 4

HasStage(plan, rank) == \E i \in DOMAIN plan : StageRank(plan[i]) = rank

(***************************************************************************)
(* C7.  A returned plan is: at most one $match stage first, there exactly  *)
(* when the where section has an entry, then at most one skip stage, then  *)
(* at most one limit stage, then the lookup stages.                        *)
(***************************************************************************)
C7_StageOrder ==
    (Done /\ IsOk(result)) =>
        /\ \A i \in DOMAIN result.v :
               Len(result.v[i]) = 1 /\ StageRank(result.v[i]) \in 0..3
        /\ \A i, j \in DOMAIN result.v :
               i < j => /\ StageRank(result.v[i]) <= StageRank(result.v[j])
                        /\ StageRank(result.v[i]) = StageRank(result.v[j])
                               => StageRank(result.v[i]) = 3
        /\ HasStage(result.v, 0) <=> (where.some /\ where.v.o # <<>>)

\* a plan with a match, a skip, a limit and a lookup stage was returned
C7_Witness ==
    /\ Done /\ IsOk(result)
    /\ \A rank \in 0..3 : HasStage(result.v, rank)

\* the section `key` of the query
Count(key) == JsonGet(json_value.o, key)
IsCount(c) == c.some /\ c.v.t = "int" /\ c.v.n >= 0

\* pageNumber >= 1 and pageSize are supplied, and skip or take as well
PageAndRaw ==
    /\ json_value.t = "obj"
    /\ IsCount(Count("pageNumber")) /\ Count("pageNumber").v.n >= 1
    /\ IsCount(Count("pageSize"))
    /\ Count("skip").some \/ Count("take").some
    /\ Count("skip").some => IsCount(Count("skip"))
    /\ Count("take").some => IsCount(Count("take"))

\* the skip and limit stages of a plan
PagingOf(plan) == SelectSeq(plan, LAMBDA stage : StageRank(stage) \in {1, 2})

(***************************************************************************)
(* C8.  With pageNumber >= 1 and pageSize supplied together with skip or   *)
(* take, the call returns what it returns without skip and take, and the   *)
(* skip and limit stages of a returned plan are a skip of                  *)
(* (pageNumber - 1) * pageSize and a limit of pageSize, and no others.     *)
(***************************************************************************)
C8_PageWinsOverRaw ==
    (Done /\ PageAndRaw) =>
        /\ result = build_query_pipeline_from_json(model, type, mutation_mode,
                        overflow_checks,
                        WithSection(WithSection(json_value, "skip", None), "take", None))
        /\ IsOk(result) =>
               /\ Len(PagingOf(result.v)) = 2
               /\ PagingOf(result.v)[1] = Stage("$skip",
                      BsonInt64((Count("pageNumber").v.n - 1) * Count("pageSize").v.n))
               /\ StageRank(PagingOf(result.v)[2]) = 2
               /\ PagingOf(result.v)[2][1][2] = BsonInt64(Count("pageSize").v.n)

\* a plan was returned for a page with a skip and a take that say otherwise
C8_Witness ==
    /\ Done /\ PageAndRaw /\ IsOk(result)
    /\ Count("skip").some /\ Count("take").some
    /\ Count("skip").v.n # (Count("pageNumber").v.n - 1) * Count("pageSize").v.n
    /\ Count("take").v.n # Count("pageSize").v.n

HasKey(plan, key) == \E i \in DOMAIN plan : plan[i][1][1] = key

\* the query takes the page-based path
PagePath == Count("pageNumber").some /\ Count("pageSize").some
\* the query takes the raw path and supplies take
RawTakePath == ~PagePath /\ Count("take").some

OtherIncludes ==
    {None, Some(JBool(TRUE)), Some(Obj1("author", JBool(TRUE))),
     Some(Obj1("tags", JBool(TRUE))), Some(Obj1("nonexistent", JBool(TRUE))),
     Some(Obj1("author", JInt(1)))}
OtherSelects == {None, Some(Obj1("title", JBool(TRUE))), Some(JInt(1))}

(***************************************************************************)
(* C10.  In mutation mode the call returns the same for every include and  *)
(* select section put in the query, and a returned plan has no $lookup     *)
(* stage.                                                                  *)
(***************************************************************************)
C10_MutationIgnoresInclude ==
    (Done /\ mutation_mode /\ json_value.t = "obj") =>
        /\ \A inc \in OtherIncludes, sel \in OtherSelects :
               build_query_pipeline_from_json(model, type, mutation_mode, overflow_checks,
                   WithSection(WithSection(json_value, "include", inc), "select", sel))
                 = result
        /\ IsOk(result) => ~HasKey(result.v, "$lookup")

\* a plan was returned in mutation mode for a query that includes a relation
C10_Witness ==
    /\ Done /\ mutation_mode /\ IsOk(result) /\ result.v # <<>>
    /\ Count("include") = Some(Obj1("author", JBool(TRUE)))

\* build_lookup_inputs has returned, for an include section that is an object
Included == result # NotYet /\ include.some /\ include.v.t = "obj"

\* the key, the value and the relation of entry i of the include object
IncludeKey(i) == include.v.o[i][1]
IncludeValue(i) == include.v.o[i][2]
IncludeRelation(i) == ModelRelation(model, IncludeKey(i))
IsDirect(i) == IncludeRelation(i).some /\ ~IncludeRelation(i).v.through.some
IsJunction(i) == IncludeRelation(i).some /\ IncludeRelation(i).v.through.some

\* the parts of a $lookup stage
IsLookup(stage) == Len(stage) = 1 /\ stage[1][1] = "$lookup"
LookupPart(stage, part) == DocGet(stage[1][2].d, part)
LetOf(stage) == LookupPart(stage, "let").v.d
PipelineOf(stage) == LookupPart(stage, "pipeline").v.a

\* a $match stage of nothing but equalities under $expr.$and
OnlyExprAnd(stage, eqs) ==
    stage = BsonDocument(Stage("$match",
                BsonDocument(Stage("$expr", BsonDocument(Stage("$and", BsonArray(eqs)))))))

\* the equalities under $expr.$and of a $match stage
ExprAndOf(stage) ==
    DocGet(DocGet(DocGet(stage.d, "$match").v.d, "$expr").v.d, "$and").v.a

\* eq is an $eq between the two expressions, in either order
IsEq(eq, a, b) ==
    /\ eq.t = "Document" /\ Len(eq.d) = 1 /\ eq.d[1][1] = "$eq"
    /\ eq.d[1][2].t = "Array" /\ Len(eq.d[1][2].a) = 2
    /\ {eq.d[1][2].a[1], eq.d[1][2].a[2]} = {BsonString(a), BsonString(b)}

\* stage binds, pair by pair, the column of the local field to a variable, and
\* eqs equate, pair by pair, that variable and the column of the referenced field
Correlates(stage, eqs, relation) ==
    /\ Len(LetOf(stage)) = Len(relation.fields)
    /\ Len(eqs) = Len(relation.fields)
    /\ \A p \in DOMAIN relation.fields :
           /\ LetOf(stage)[p][2] = BsonString("$" \o ColumnName(model, relation.fields[p]))
           /\ IsEq(eqs[p], "$" \o ColumnName(relation.model, relation.references[p]),
                   "$$" \o LetOf(stage)[p][1])

\* the lookup of a direct relation, up to its sub-pipeline
IsDirectLookup(stage, key, relation) ==
    /\ IsLookup(stage)
    /\ LookupPart(stage, "from") = Some(BsonString(TableName(relation.model)))
    /\ LookupPart(stage, "as") = Some(BsonString(key))
    /\ PipelineOf(stage) # <<>>

(***************************************************************************)
(* C11.  Including a direct relation with the value true emits one $lookup *)
(* stage, in the place of its key: `from` is the table of the target       *)
(* model, `as` the key, `let` binds for each pair (f_i, r_i) the column of *)
(* f_i to a variable, and the sub-pipeline is one $match of one $eq per    *)
(* pair under $expr.$and between that variable and the target's column of  *)
(* r_i.                                                                    *)
(***************************************************************************)
C11_DirectLookupShape ==
    Included =>
        /\ IsOk(result) => Len(result.v) = Len(include.v.o)
        /\ \A i \in DOMAIN include.v.o :
               (IsDirect(i) /\ IncludeValue(i) = JBool(TRUE)) =>
                   /\ Len(include.v.o) = 1 => IsOk(result)
                   /\ IsOk(result) =>
                          /\ IsDirectLookup(result.v[i], IncludeKey(i), IncludeRelation(i).v)
                          /\ Len(PipelineOf(result.v[i])) = 1
                          /\ OnlyExprAnd(PipelineOf(result.v[i])[1],
                                         ExprAndOf(PipelineOf(result.v[i])[1]))
                          /\ Correlates(result.v[i], ExprAndOf(PipelineOf(result.v[i])[1]),
                                        IncludeRelation(i).v)

\* the relation of two pairs from Profile to User was included with true
C11_Witness ==
    /\ model = "Profile" /\ include = Some(Obj1("user", JBool(TRUE)))
    /\ IsOk(result) /\ Len(result.v) = 1

\* the where section of the nested value of entry i, what it compiles to on the
\* target model, and the plan the nested value compiles to
NestedWhere(i) == JsonGet(IncludeValue(i).o, "where")
NestedMatch(i) == build_where_input(IncludeRelation(i).v.model, NestedWhere(i)).v
NestedPlan(i) ==
    build_query_pipeline_from_json(IncludeRelation(i).v.model, type, mutation_mode,
                                   overflow_checks, IncludeValue(i)).v

\* the document of a $match stage of a sub-pipeline
MatchDocOf(stage) == DocGet(stage.d, "$match").v.d

\* the positions of the $match stages of a sub-pipeline
MatchesIn(pipeline) == {j \in DOMAIN pipeline : IsMatchStage(pipeline[j].d)}

\* the stages of a plan after its $match stage, if it has one
AfterMatch(plan) == IF plan # <<>> /\ IsMatchStage(plan[1]) THEN Tail(plan) ELSE plan

(***************************************************************************)
(* C12.  When the nested value of a direct relation include has its own    *)
(* where, the sub-pipeline of the lookup has exactly one $match stage, its *)
(* first stage, which keeps every predicate the nested where compiles to   *)
(* and carries besides them the correlation equalities under $expr.$and;   *)
(* the other stages of the nested plan follow it in their order.           *)
(***************************************************************************)
C12_NestedWhereMerged ==
    (Included /\ IsOk(result)) =>
        \A i \in DOMAIN include.v.o :
            (IsDirect(i) /\ IncludeValue(i).t = "obj" /\ NestedWhere(i).some) =>
                /\ IsDirectLookup(result.v[i], IncludeKey(i), IncludeRelation(i).v)
                /\ MatchesIn(PipelineOf(result.v[i])) = {1}
                /\ SubSeq(MatchDocOf(PipelineOf(result.v[i])[1]), 1, Len(NestedMatch(i)))
                       = NestedMatch(i)
                /\ Len(MatchDocOf(PipelineOf(result.v[i])[1])) = Len(NestedMatch(i)) + 1
                /\ MatchDocOf(PipelineOf(result.v[i])[1])[Len(NestedMatch(i)) + 1][1] = "$expr"
                /\ Correlates(result.v[i], ExprAndOf(PipelineOf(result.v[i])[1]),
                              IncludeRelation(i).v)
                /\ Tail(PipelineOf(result.v[i]))
                       = [j \in DOMAIN AfterMatch(NestedPlan(i)) |->
                              BsonDocument(AfterMatch(NestedPlan(i))[j])]

\* an author was included with a where, a skip, a take and an include of its own
C12_Witness ==
    /\ model = "Post" /\ IsOk(result)
    /\ include = Some(Obj1("author", Query(Some(Obj1("name", JStr("abc"))), Some(JInt(1)),
                                           Some(JInt(2)), None, None,
                                           Some(Obj1("posts", JBool(TRUE))))))

\* the junction model of entry i and its owning-side and target-side relations
Junction(i) == IncludeRelation(i).v.through.v
OwningSide(i) == ModelRelation(Junction(i), IncludeRelation(i).v.fields[1]).v
TargetSide(i) == ModelRelation(Junction(i), IncludeRelation(i).v.references[1]).v

\* "$name" or "$column" of a field of model_
FieldPaths(model_, name) == {"$" \o name, "$" \o ColumnName(model_, name)}

\* the outer lookup correlates the referenced fields of the owning model with the
\* owning-side fields of the junction
OwningCorrelation(stage, eqs, junction, side) ==
    /\ Len(LetOf(stage)) = Len(side.fields) /\ Len(eqs) = Len(side.fields)
    /\ \A p \in DOMAIN side.fields :
           /\ LetOf(stage)[p][2] = BsonString("$" \o ColumnName(model, side.references[p]))
           /\ \E path \in FieldPaths(junction, side.fields[p]) :
                  IsEq(eqs[p], path, "$$" \o LetOf(stage)[p][1])

\* the inner lookup correlates the target-side fields of the junction with the
\* referenced fields of the target model
TargetCorrelation(stage, eqs, junction, side) ==
    /\ Len(LetOf(stage)) = Len(side.fields) /\ Len(eqs) = Len(side.fields)
    /\ \A p \in DOMAIN side.fields :
           /\ LetOf(stage)[p][2].t = "String"
           /\ LetOf(stage)[p][2].s \in FieldPaths(junction, side.fields[p])
           /\ IsEq(eqs[p], "$" \o ColumnName(side.model, side.references[p]),
                   "$$" \o LetOf(stage)[p][1])

\* the sub-pipeline of the lookup of a relation through a junction
IsJunctionPipeline(stage, name, junction, owning, target) ==
    /\ Len(PipelineOf(stage)) = 4
    /\ OnlyExprAnd(PipelineOf(stage)[1], ExprAndOf(PipelineOf(stage)[1]))
    /\ OwningCorrelation(stage, ExprAndOf(PipelineOf(stage)[1]), junction, owning)
    /\ IsLookup(PipelineOf(stage)[2].d)
    /\ LookupPart(PipelineOf(stage)[2].d, "from") = Some(BsonString(TableName(target.model)))
    /\ LookupPart(PipelineOf(stage)[2].d, "as") = Some(BsonString(name))
    /\ Len(PipelineOf(PipelineOf(stage)[2].d)) = 1
    /\ OnlyExprAnd(PipelineOf(PipelineOf(stage)[2].d)[1],
                   ExprAndOf(PipelineOf(PipelineOf(stage)[2].d)[1]))
    /\ TargetCorrelation(PipelineOf(stage)[2].d,
                         ExprAndOf(PipelineOf(PipelineOf(stage)[2].d)[1]), junction, target)
    /\ PipelineOf(stage)[3]
           = BsonDocument(Stage("$unwind", BsonDocument(Stage("path", BsonString("$" \o name)))))
    /\ PipelineOf(stage)[4]
           = BsonDocument(Stage("$replaceRoot",
                                BsonDocument(Stage("newRoot", BsonString("$" \o name)))))

(***************************************************************************)
(* C13.  Including a relation declared through a junction model emits one  *)
(* top-level $lookup, in the place of its key, from the junction's         *)
(* collection and as the relation name, whose sub-pipeline is, in this     *)
(* order: a $match on the owning-side correlation, a nested $lookup from   *)
(* the target model's collection on the target-side correlation, a $unwind *)
(* of the relation-named array and a $replaceRoot promoting it.            *)
(***************************************************************************)
C13_JunctionLookupShape ==
    Included =>
        \A i \in DOMAIN include.v.o :
            (IsJunction(i) /\ IncludeValue(i).t \in {"bool", "obj"}) =>
                /\ Len(include.v.o) = 1 => IsOk(result)
                /\ IsOk(result) =>
                       /\ Len(result.v) = Len(include.v.o)
                       /\ IsLookup(result.v[i])
                       /\ LookupPart(result.v[i], "from")
                              = Some(BsonString(TableName(Junction(i))))
                       /\ LookupPart(result.v[i], "as")
                              = Some(BsonString(IncludeRelation(i).v.name))
                       /\ IsJunctionPipeline(result.v[i], IncludeRelation(i).v.name,
                                             Junction(i), OwningSide(i), TargetSide(i))

\* the tags of a Post, declared through PostTag, were included
C13_Witness ==
    /\ model = "Post" /\ include = Some(Obj1("tags", JBool(TRUE)))
    /\ IsOk(result) /\ Len(result.v) = 1

\* entry i of the include object names no relation, or has a value that is
\* neither a boolean nor an object
UnknownRelation(i) == ~IncludeRelation(i).some
BadIncludeValue(i) == IncludeRelation(i).some /\ IncludeValue(i).t \notin {"bool", "obj"}

\* entry j of the include object compiles to a lookup
EntryLooksUp(j) ==
    IsOk(LookupEntry(model, type, mutation_mode, overflow_checks, IncludeKey(j),
                     IncludeValue(j), IncludeRelation(j)))

\* the messages that name the relation key and the model
UnknownRelationMessage(key) ==
    "Relation '" \o key \o "' on model '" \o model
        \o "' is not exist. Please check your input."
BadIncludeValueMessage(key) ==
    "Relation '" \o key \o "' on model '" \o model
        \o "' has a unrecognized value. It's either a boolean or an object. Please check your input."

(***************************************************************************)
(* C14.  For each key of an include object, of a direct or a junction      *)
(* relation alike, build_lookup_inputs fails with InvalidQueryInput when   *)
(* it comes to a key that is no declared relation of the model or whose    *)
(* value is neither a boolean nor an object; the message names the key and *)
(* the model, and no plan is returned.                                     *)
(***************************************************************************)
C14_MalformedIncludeRejected ==
    Included =>
        \A i \in DOMAIN include.v.o :
            /\ (UnknownRelation(i) \/ BadIncludeValue(i)) => ~IsOk(result)
            /\ (UnknownRelation(i) /\ \A j \in 1..(i - 1) : EntryLooksUp(j))
                   => result = ErrMsg("InvalidQueryInput", UnknownRelationMessage(IncludeKey(i)))
            /\ (BadIncludeValue(i) /\ \A j \in 1..(i - 1) : EntryLooksUp(j))
                   => result = ErrMsg("InvalidQueryInput", BadIncludeValueMessage(IncludeKey(i)))

\* the second key of an include object had a value that is no boolean and no object
C14_Witness ==
    /\ model = "Post"
    /\ include = Some(Obj2("author", JBool(TRUE), "tags", JStr("abc")))
    /\ result = ErrMsg("InvalidQueryInput", BadIncludeValueMessage("tags"))

(***************************************************************************)
(* C15.  For every query description, build_query_pipeline_from_json ends  *)
(* with a plan or a typed error: it never panics on user input.            *)
(* Stated as the claim has it; the code panics on a take without a skip,   *)
(* on a take, skip, pageNumber or pageSize that is no non-negative         *)
(* integer, and, in a build with overflow checks, on pageNumber 0.         *)
(***************************************************************************)
C15_NeverCrashes == Done => (IsOk(result) \/ result.k = "Err")

\* the native values of the elements of an array, each valid for the field type
AllValid(field_type, a) == \A j \in DOMAIN a : ExpectedNative(field_type, a[j]).some
NativeArray(field_type, a) ==
    BsonArray([j \in DOMAIN a |-> ExpectedNative(field_type, a[j]).v])

\* the native operator of in and of notIn
MembershipOf(op) == IF op = "in" THEN "$in" ELSE "$nin"

(***************************************************************************)
(* C16.  For every scalar field type, Bool among them, {in: a} and         *)
(* {notIn: a} with an array a of elements valid for the type compile to    *)
(* $in / $nin of the native values of the elements, in order; with a value *)
(* that is no array they fail with WrongInputType.                         *)
(* Stated as the claim has it; the code does not know in / notIn on Bool.  *)
(***************************************************************************)
C16_MembershipEveryType ==
    \A k \in ScalarKeys, op \in {"in", "notIn"}, v \in Scalars \cup Arrays :
        Compiled(k, Obj1(op, v)) =>
            /\ (v.t = "arr" /\ AllValid(FieldTypeOf(model, k), v.a))
                   => where_result = OnePredicate(k, BsonDocument(
                          Stage(MembershipOf(op), NativeArray(FieldTypeOf(model, k), v.a))))
            /\ v.t # "arr" => where_result = Err("WrongInputType")

\* C16 away from Bool fields, from Date and Enum fields with an element to parse
MembershipButBoolDateEnum ==
    \A k \in ScalarKeys \ {"active"}, op \in {"in", "notIn"}, v \in Scalars \cup Arrays :
        Compiled(k, Obj1(op, v)) =>
            /\ (v.t = "arr" /\ AllValid(FieldTypeOf(model, k), v.a)
                  /\ (k \in {"birthday", "role"} => v.a = <<>>))
                   => where_result = OnePredicate(k, BsonDocument(
                          Stage(MembershipOf(op), NativeArray(FieldTypeOf(model, k), v.a))))
            /\ v.t # "arr" => where_result = Err("WrongInputType")

\* the members of the enum of the field role
RoleMembers == {"ADMIN", "GUEST"}

AllStrings(a) == \A j \in DOMAIN a : a[j].t = "str"

(***************************************************************************)
(* C17.  On an Enum field, in / notIn with a non-empty array of member     *)
(* strings compile to $in / $nin of exactly those strings, in order; an    *)
(* array of strings one of which is no member fails with                   *)
(* UndefinedEnumValue; gt, gte, lt and lte fail with WrongInputType.       *)
(* Stated as the claim has it; the code hands the array itself to          *)
(* parse_enum for every element.                                           *)
(***************************************************************************)
C17_EnumMembership ==
    /\ \A op \in {"in", "notIn"}, v \in Arrays :
           (Compiled("role", Obj1(op, v)) /\ v.a # <<>> /\ AllStrings(v.a)) =>
               IF \A j \in DOMAIN v.a : v.a[j].s \in RoleMembers
               THEN where_result = OnePredicate("role", BsonDocument(
                        Stage(MembershipOf(op), BsonArray([j \in DOMAIN v.a |-> BsonString(v.a[j].s)]))))
               ELSE where_result = Err("UndefinedEnumValue")
    /\ \A op \in {"gt", "gte", "lt", "lte"}, v \in Scalars \cup Arrays :
           Compiled("role", Obj1(op, v)) => where_result = Err("WrongInputType")

\* what holds of C17: the ordering operators, and that no non-empty array compiles
EnumOrderingRejected ==
    /\ \A op \in {"in", "notIn"}, v \in Arrays :
           (Compiled("role", Obj1(op, v)) /\ v.a # <<>>) => where_result = Err("WrongInputType")
    /\ \A op \in {"gt", "gte", "lt", "lte"}, v \in Scalars \cup Arrays :
           Compiled("role", Obj1(op, v)) => where_result = Err("WrongInputType")

\* operands of the regex operators, as written and as regular expressions that
\* match the operand and nothing else
RegexOperands == {"abc", "a.b", "ADMIN", "1970-01-02"}
Verbatim(s) ==
    CASE s = "abc" -> <<"a", "b", "c">>
      [] s = "a.b" -> <<"a", ".", "b">>
      [] s = "ADMIN" -> <<"A", "D", "M", "I", "N">>
      [] s = "1970-01-02" -> <<"1", "9", "7", "0", "-", "0", "1", "-", "0", "2">>
Escaped(s) ==
    CASE s = "abc" -> <<"a", "b", "c">>
      [] s = "a.b" -> <<"a", "\\", ".", "b">>
      [] s = "ADMIN" -> <<"A", "D", "M", "I", "N">>
      [] s = "1970-01-02" ->
            <<"1", "9", "7", "0", "\\", "-", "0", "1", "\\", "-", "0", "2">>

\* the pattern the specification gives a regex operator
ExpectedPattern(op, s) ==
    CASE op = "contains" -> Escaped(s)
      [] op = "startsWith" -> <<"^">> \o Escaped(s)
      [] op = "endsWith" -> Escaped(s) \o <<"$">>
      [] op = "matches" -> Verbatim(s)

RegexOperators == {"contains", "startsWith", "endsWith", "matches"}

(***************************************************************************)
(* C18.  On a String field, contains, startsWith and endsWith compile to a *)
(* $regex whose pattern is the escaped operand, "^" and the escaped        *)
(* operand, and the escaped operand and "$"; matches compiles to a $regex  *)
(* whose pattern is the operand as written.                                *)
(***************************************************************************)
C18_RegexPatterns ==
    \A op \in RegexOperators, s \in RegexOperands :
        Compiled("name", Obj1(op, JStr(s))) =>
            where_result = OnePredicate("name", BsonDocument(
                Stage("$regex", BsonRegex(ExpectedPattern(op, s), ""))))

\* contains "a.b" compiled to the pattern a\.b
C18_Witness ==
    /\ where = Some(Obj1("name", Obj1("contains", JStr("a.b"))))
    /\ where_result = OnePredicate("name", BsonDocument(
           Stage("$regex", BsonRegex(<<"a", "\\", ".", "b">>, ""))))

\* an operator object was compiled on the String field name
Operated == where_result # NotYet /\ where.some /\ where.v.t = "obj"
            /\ Len(where.v.o) = 1 /\ where.v.o[1][2].t = "obj"
OperatedOn(k) == Operated /\ where.v.o[1][1] = k
Operators == where.v.o[1][2].o

\* the object has the sibling key mode with the value "caseInsensitive"
CaseInsensitive == \E j \in DOMAIN Operators : Operators[j] = <<"mode", JStr("caseInsensitive")>>

\* entry i is a regex operator and every other entry of the object is a mode
OnlyRegexAt(i) ==
    /\ Operators[i][1] \in RegexOperators
    /\ Operators[i][2].t = "str" /\ Operators[i][2].s \in RegexOperands
    /\ \A j \in DOMAIN Operators : j # i => Operators[j][1] = "mode"

(***************************************************************************)
(* C19.  In an operator object on a String field, the regex of contains,   *)
(* startsWith, endsWith or matches has the option "i" exactly when the     *)
(* object has a key mode whose value is the string "caseInsensitive",      *)
(* before or after the operator, and the empty options otherwise; mode     *)
(* adds no predicate and raises no error, whatever its value.              *)
(***************************************************************************)
C19_ModeSetsOption ==
    OperatedOn("name") =>
        /\ \A i \in DOMAIN Operators :
               OnlyRegexAt(i) =>
                   where_result = OnePredicate("name", BsonDocument(
                       Stage("$regex", BsonRegex(
                           ExpectedPattern(Operators[i][1], Operators[i][2].s),
                           IF CaseInsensitive THEN "i" ELSE ""))))
        /\ (\A j \in DOMAIN Operators : Operators[j][1] = "mode")
               => where_result = OnePredicate("name", BsonDocument(<<>>))
        /\ (\A j \in DOMAIN Operators : Operators[j][1] \notin RegexOperators)
               => where_result = build_where_input(model, Some(Obj1("name", JObj(
                      SelectSeq(Operators, LAMBDA e : e[1] # "mode")))))

\* a regex operator after a mode "caseInsensitive" got the option "i"
C19_Witness ==
    /\ where = Some(Obj1("name", Obj2("mode", JStr("caseInsensitive"), "endsWith", JStr("a.b"))))
    /\ where_result = OnePredicate("name", BsonDocument(
           Stage("$regex", BsonRegex(<<"a", "\\", ".", "b", "$">>, "i"))))

\* the operators section 4.3 of the specification gives a field type
Recognized(field_type) ==
    {"equals", "not", "in", "notIn"}
    \cup (IF field_type.ft \in {"ObjectId", "String", "Date", "DateTime"}
                                  \cup IntTypes \cup FloatTypes
          THEN {"gt", "gte", "lt", "lte"} ELSE {})
    \cup (IF field_type.ft = "String"
          THEN {"contains", "startsWith", "endsWith", "matches", "mode"} ELSE {})

\* entry i of the operator object on field k is no operator of the field's type
Unrecognized(k, i) == Operators[i][1] \notin Recognized(FieldTypeOf(model, k))

\* entry j of the operator object on field k compiles, taken alone
OperatorCompiles(k, j) ==
    IsOk(parse_bson_where_entry(FieldTypeOf(model, k), JObj(<<Operators[j]>>)))

(***************************************************************************)
(* C20, as stated.  On every supported field type, an operator object      *)
(* with a key outside the type's operators fails with WrongInputType,      *)
(* whatever its other keys and the value of the offending key.             *)
(***************************************************************************)
C20_UnknownOperatorWrongType ==
    \A k \in ScalarKeys :
        OperatedOn(k) =>
            \A i \in DOMAIN Operators :
                Unrecognized(k, i) => where_result = Err("WrongInputType")

(***************************************************************************)
(* C20, amended.  On every supported field type, an operator object with   *)
(* a key outside the type's operators never compiles to a predicate, and   *)
(* fails with WrongInputType when the keys before the offending one        *)
(* compile, whatever the value of the offending key; when an earlier key   *)
(* fails, the result is that failure.                                      *)
(***************************************************************************)
C20_UnknownOperatorRejected ==
    \A k \in ScalarKeys :
        OperatedOn(k) =>
            \A i \in DOMAIN Operators :
                Unrecognized(k, i) =>
                    /\ ~IsOk(where_result)
                    /\ (\A j \in 1..(i - 1) : OperatorCompiles(k, j))
                           => where_result = Err("WrongInputType")
                    /\ \A j \in 1..(i - 1) :
                           (~OperatorCompiles(k, j) /\ \A h \in 1..(j - 1) : OperatorCompiles(k, h))
                               => where_result = parse_bson_where_entry(
                                      FieldTypeOf(model, k), JObj(<<Operators[j]>>))

\* an ordering operator on the Enum field, after an operator that compiles, was
\* rejected although its value is a member of the enum
C20_Witness ==
    /\ where = Some(Obj1("role", Obj2("equals", JStr("ADMIN"), "gt", JStr("ADMIN"))))
    /\ where_result = Err("WrongInputType")

\* the where section of the query description, and what build_where_input makes of it
WhereSection == JsonGet(json_value.o, "where")
WhereDocument == build_where_input(model, WhereSection)
NoEntries == ~WhereSection.some \/ WhereSection.v = JObj(<<>>)

\* the $match stages of a plan, in order
MatchStagesOf(plan) == SelectSeq(plan, IsMatchStage)

(***************************************************************************)
(* C21.  A returned plan has a $match stage exactly when the document      *)
(* build_where_input compiles from the where section is not empty, and     *)
(* the stage holds that document; for an absent where section and for an   *)
(* empty where-object build_where_input returns the empty document and     *)
(* the plan has no $match stage.                                           *)
(***************************************************************************)
C21_MatchIffNonEmpty ==
    (Done /\ IsOk(result)) =>
        /\ IsOk(WhereDocument)
        /\ IF WhereDocument.v = <<>>
           THEN MatchStagesOf(result.v) = <<>>
           ELSE MatchStagesOf(result.v) = <<Stage("$match", BsonDocument(WhereDocument.v))>>
        /\ NoEntries => (WhereDocument = Ok(<<>>) /\ MatchStagesOf(result.v) = <<>>)

\* a plan without a $match stage was returned for an empty where-object, with
\* other stages in it
C21_Witness ==
    /\ Done /\ IsOk(result)
    /\ WhereSection = Some(JObj(<<>>))
    /\ result.v # <<>>
    /\ MatchStagesOf(result.v) = <<>>

(***************************************************************************)
(* C22.  A where entry on a field of type Decimal fails with a typed       *)
(* error, whatever its value: the filter compiler neither crashes nor      *)
(* compiles it.                                                            *)
(* Stated as the claim has it; the Decimal arm of the code is todo!().     *)
(***************************************************************************)
C22_DecimalRejected ==
    \A v \in EntryValues :
        Compiled("balance", v) => where_result.k = "Err"

\* what the code does on a Decimal field: the arm is reached and crashes
DecimalCrashes ==
    \A v \in EntryValues :
        Compiled("balance", v) => where_result = Panic

\* the block has run
Reached(block) == \E i \in DOMAIN trace : trace[i] = block

\* entry i of the where-object compiled alone, entry i of the include object
\* compiled alone, and the include section compiled
WhereAlone(i) == build_where_input(model, Some(JObj(<<where.v.o[i]>>)))
IncludeAlone(i) ==
    build_lookup_inputs(model, type, mutation_mode, overflow_checks, JObj(<<include.v.o[i]>>))
Lookups == build_lookup_inputs(model, type, mutation_mode, overflow_checks, include.v)

\* the first entry that fails alone is entry i
FirstFailingKey(i) == ~IsOk(WhereAlone(i)) /\ \A j \in 1..(i - 1) : IsOk(WhereAlone(j))
FirstFailingRelation(i) ==
    ~IsOk(IncludeAlone(i)) /\ \A j \in 1..(i - 1) : IsOk(IncludeAlone(j))

NestedAuthor ==
    /\ JsonGet(json_value.o, "include").some
    /\ JsonGet(json_value.o, "include").v.t = "obj"
    /\ Len(JsonGet(json_value.o, "include").v.o) = 1
    /\ JsonGet(json_value.o, "include").v.o[1][1] = "author"
    /\ JsonGet(json_value.o, "include").v.o[1][2].t = "obj"

(***************************************************************************)
(* C24.  In a Unique compile whose where section is an exact unique        *)
(* key-set, the nested query description of a direct relation is compiled  *)
(* as in a compile that validates nothing: the call returns what the Many  *)
(* compile of the same description returns, and with the nested            *)
(* description {} it returns a plan.                                       *)
(* Stated as the claim has it; the code hands r#type on to the nested      *)
(* compile, which validates the nested where against the target model.     *)
(***************************************************************************)
C24_NestedNotValidated ==
    (Done /\ type = "Unique" /\ ~mutation_mode /\ json_value.t = "obj"
          /\ ExactUniqueKeys /\ NestedAuthor) =>
        /\ result = build_query_pipeline_from_json(model, "Many", mutation_mode,
                                                   overflow_checks, json_value)
        /\ (JsonGet(json_value.o, "include") = Some(Obj1("author", JObj(<<>>)))
              /\ IsOk(PagingStages(overflow_checks, paging)))
               => IsOk(result)

\* what the code does: the nested description goes through the unique validation
\* against the target model User, and fails it when its where is absent
NestedValidated ==
    (Done /\ type = "Unique" /\ ~mutation_mode /\ json_value.t = "obj"
          /\ ExactUniqueKeys /\ NestedAuthor /\ Reached("lookup")) =>
        /\ JsonGet(JsonGet(json_value.o, "include").v.o[1][2].o, "where") = None
               => result = Err("MissingInputSection")
        /\ IsOk(result) =>
               validate_where_unique("User",
                   JsonGet(JsonGet(json_value.o, "include").v.o[1][2].o, "where")).k = "Ok"

\* the skip stages and the limit stages of a plan
SkipsOf(plan) == SelectSeq(plan, LAMBDA stage : StageRank(stage) = 1)
LimitsOf(plan) == SelectSeq(plan, LAMBDA stage : StageRank(stage) = 2)

(***************************************************************************)
(* C25.  On the raw skip/take path the "$skip and $limit" block does not   *)
(* fail, and in a returned plan the limit stage is there exactly when      *)
(* take is supplied and carries the value of take, with or without a       *)
(* skip, and the $skip stage is there exactly when skip is supplied and    *)
(* carries the value of skip.                                              *)
(* Stated as the claim has it; the code builds the limit stage from        *)
(* skip.unwrap().                                                          *)
(***************************************************************************)
C25_RawLimitIsTake ==
    (Done /\ Reached("paging") /\ ~IsPaged(paging)) =>
        /\ trace[Len(trace)] # "paging"
        /\ IsOk(result) =>
               /\ LimitsOf(result.v) =
                      (IF paging.take.some
                       THEN <<Stage("$limit", BsonInt64(paging.take.v))>> ELSE <<>>)
               /\ SkipsOf(result.v) =
                      (IF paging.skip.some
                       THEN <<Stage("$skip", BsonInt64(paging.skip.v))>> ELSE <<>>)

\* what the code does on the raw path: a take without a skip crashes, a take with
\* a skip limits by the value of skip; the skip stage is as claimed
RawLimitIsSkip ==
    (Done /\ Reached("paging") /\ ~IsPaged(paging)) =>
        /\ (paging.take.some /\ ~paging.skip.some) => result = Panic
        /\ IsOk(result) =>
               /\ LimitsOf(result.v) =
                      (IF paging.take.some
                       THEN <<Stage("$limit", BsonInt64(paging.skip.v))>> ELSE <<>>)
               /\ SkipsOf(result.v) =
                      (IF paging.skip.some
                       THEN <<Stage("$skip", BsonInt64(paging.skip.v))>> ELSE <<>>)

\* the equalities of the $match of the outer and of the inner lookup of a relation
\* through a junction
OuterEqs(stage) == ExprAndOf(PipelineOf(stage)[1])
InnerLookup(stage) == PipelineOf(stage)[2].d
InnerEqs(stage) == ExprAndOf(PipelineOf(InnerLookup(stage))[1])

\* the field paths of the two levels of the lookup through a junction are the
\* columns of the fields: of the owning model's referenced fields and the
\* junction's owning-side fields, of the junction's target-side fields and the
\* target model's referenced fields
JunctionPathsAreColumns(stage, junction, owning, target) ==
    /\ \A p \in DOMAIN owning.fields :
           /\ LetOf(stage)[p][2] = BsonString("$" \o ColumnName(model, owning.references[p]))
           /\ IsEq(OuterEqs(stage)[p], "$" \o ColumnName(junction, owning.fields[p]),
                   "$$" \o LetOf(stage)[p][1])
    /\ \A p \in DOMAIN target.fields :
           /\ LetOf(InnerLookup(stage))[p][2]
                  = BsonString("$" \o ColumnName(junction, target.fields[p]))
           /\ IsEq(InnerEqs(stage)[p], "$" \o ColumnName(target.model, target.references[p]),
                   "$$" \o LetOf(InnerLookup(stage))[p][1])

\* the same with the junction's fields by their logical names, as the code has them
JunctionPathsAreNames(stage, junction, owning, target) ==
    /\ \A p \in DOMAIN owning.fields :
           /\ LetOf(stage)[p][2] = BsonString("$" \o ColumnName(model, owning.references[p]))
           /\ IsEq(OuterEqs(stage)[p], "$" \o owning.fields[p], "$$" \o LetOf(stage)[p][1])
    /\ \A p \in DOMAIN target.fields :
           /\ LetOf(InnerLookup(stage))[p][2] = BsonString("$" \o target.fields[p])
           /\ IsEq(InnerEqs(stage)[p], "$" \o ColumnName(target.model, target.references[p]),
                   "$$" \o LetOf(InnerLookup(stage))[p][1])

(***************************************************************************)
(* C26.  In every lookup of a returned plan, the field paths of the        *)
(* correlation, those bound in `let` and those compared by $eq, are the    *)
(* storage columns of the fields: for a direct relation, and for the       *)
(* outer and the inner level of a relation through a junction.             *)
(* Stated as the claim has it; the code writes the fields of the junction  *)
(* model by their logical names.                                           *)
(***************************************************************************)
C26_PathsAreColumns ==
    (Included /\ IsOk(result)) =>
        \A i \in DOMAIN include.v.o :
            /\ IsDirect(i) =>
                   Correlates(result.v[i], ExprAndOf(PipelineOf(result.v[i])[1]),
                              IncludeRelation(i).v)
            /\ IsJunction(i) =>
                   JunctionPathsAreColumns(result.v[i], Junction(i), OwningSide(i),
                                           TargetSide(i))

\* what the code does: columns for the direct relations and for the fields of the
\* owning and the target model, logical names for the fields of the junction
PathsOfJunctionAreNames ==
    (Included /\ IsOk(result)) =>
        \A i \in DOMAIN include.v.o :
            /\ IsDirect(i) =>
                   Correlates(result.v[i], ExprAndOf(PipelineOf(result.v[i])[1]),
                              IncludeRelation(i).v)
            /\ IsJunction(i) =>
                   JunctionPathsAreNames(result.v[i], Junction(i), OwningSide(i),
                                         TargetSide(i))

\* the include object with the value of entry i replaced by true
WithTrueAt(i) ==
    JObj([j \in DOMAIN include.v.o |->
             IF j = i THEN <<IncludeKey(i), JBool(TRUE)>> ELSE include.v.o[j]])

\* the lookup stage of the relation of entry i included alone with the value true
LookupOfTrue(i) ==
    build_lookup_inputs(model, type, mutation_mode, overflow_checks,
                        Obj1(IncludeKey(i), JBool(TRUE))).v[1]

(***************************************************************************)
(* C27.  For a relation through a junction the include value, a boolean    *)
(* or an object, has no part in the result: the include section compiles   *)
(* to what it compiles to with the value true in its place, the entry      *)
(* alone always compiles, and its lookup stage is the one of the value     *)
(* true, whatever where, skip, take, page or include the object holds and  *)
(* whether or not they are well-formed.                                    *)
(***************************************************************************)
C27_JunctionIgnoresValue ==
    Included =>
        \A i \in DOMAIN include.v.o :
            (IsJunction(i) /\ IncludeValue(i).t \in {"bool", "obj"}) =>
                /\ result = build_lookup_inputs(model, type, mutation_mode,
                                                overflow_checks, WithTrueAt(i))
                /\ IsOk(IncludeAlone(i))
                /\ IsOk(result) => result.v[i] = LookupOfTrue(i)

\* the tags of a Post were included with a nested where on a key Tag does not
\* have, and the lookup of the value true was returned
C27_Witness ==
    /\ model = "Post" /\ type = "Unique"
    /\ include = Some(Obj1("tags", Query(Some(Obj1("bogus", JInt(1))), None, None, None,
                                         None, None)))
    /\ IsOk(result) /\ result.v = <<LookupOfTrue(1)>>

(***************************************************************************)
(* C28.  An include entry of the value false compiles as the same entry    *)
(* of the value true: the include section compiles to what it compiles to  *)
(* with true in the place of false, and the entry's stage is the lookup of *)
(* the value true. The lookups returned are one $lookup stage per key of   *)
(* the include object, the stage of the i-th key at place i.               *)
(***************************************************************************)
C28_FalseIncludesToo ==
    Included =>
        /\ \A i \in DOMAIN include.v.o :
               IncludeValue(i) = JBool(FALSE) =>
                   /\ result = build_lookup_inputs(model, type, mutation_mode,
                                                   overflow_checks, WithTrueAt(i))
                   /\ IncludeRelation(i).some => IsOk(IncludeAlone(i))
                   /\ IsOk(result) => result.v[i] = LookupOfTrue(i)
        /\ IsOk(result) =>
               /\ Len(result.v) = Len(include.v.o)
               /\ \A i \in DOMAIN include.v.o :
                      /\ IsLookup(result.v[i])
                      /\ LookupPart(result.v[i], "as") = Some(BsonString(IncludeKey(i)))

\* the posts of a User were included with the value false and looked up
C28_Witness ==
    /\ model = "User" /\ include = Some(Obj1("posts", JBool(FALSE)))
    /\ IsOk(result) /\ Len(result.v) = 1
    /\ LookupPart(result.v[1], "from") = Some(BsonString("posts"))

\* the native operator key an operator of an operator object writes to; mode
\* writes to none
NativeKeyOf(op) ==
    CASE op \in {"equals", "not"} -> "$eq"
      [] op \in {"gt", "gte", "lt", "lte"} -> "$gt"
      [] op = "in" -> "$in"
      [] op = "notIn" -> "$nin"
      [] op \in {"contains", "startsWith", "endsWith", "matches"} -> "$regex"
      [] OTHER -> "none"

\* the predicate document the operator object of the where entry compiled to
PredicateOf == where_result.v[1][2].d

\* operator j is the last of the object that writes to its native key
LastOfItsKey(j) ==
    \A h \in DOMAIN Operators :
        NativeKeyOf(Operators[h][1]) = NativeKeyOf(Operators[j][1]) => h <= j

\* the value operator j compiles to on field k, with the modes of the object
ValueOf(k, j) ==
    parse_bson_where_entry(FieldTypeOf(model, k),
        JObj(SelectSeq(Operators, LAMBDA e : e = Operators[j] \/ e[1] = "mode"))).v.d[1][2]

(***************************************************************************)
(* C29.  The predicate document an operator object compiles to has at      *)
(* most one entry per native operator key: one for each native key that    *)
(* an operator of the object maps to ($eq for equals and not, $gt for gt,  *)
(* gte, lt and lte, $in, $nin, $regex for contains, startsWith, endsWith   *)
(* and matches), holding the value of the operator visited last among      *)
(* those that map to the key. {gt: a, lt: b} compiles to {$gt: b}.         *)
(***************************************************************************)
C29_OneEntryPerNativeKey ==
    \A k \in ScalarKeys :
        (OperatedOn(k) /\ IsOk(where_result)) =>
            /\ \A x, y \in DOMAIN PredicateOf :
                   PredicateOf[x][1] = PredicateOf[y][1] => x = y
            /\ \A x \in DOMAIN PredicateOf :
                   \E j \in DOMAIN Operators :
                       /\ NativeKeyOf(Operators[j][1]) = PredicateOf[x][1]
                       /\ LastOfItsKey(j)
                       /\ PredicateOf[x][2] = ValueOf(k, j)
            /\ \A j \in DOMAIN Operators :
                   NativeKeyOf(Operators[j][1]) # "none" =>
                       \E x \in DOMAIN PredicateOf :
                           PredicateOf[x][1] = NativeKeyOf(Operators[j][1])
            /\ (k = "age" /\ Operators = <<<<"gt", JInt(30)>>, <<"lt", JInt(7)>>>>) =>
                   PredicateOf = Stage("$gt", BsonInt64(7))

\* the range {gt: 30, lt: 7} on the integer field compiled to the one condition
\* {$gt: 7}
C29_Witness ==
    /\ where = Some(Obj1("age", Obj2("gt", JInt(30), "lt", JInt(7))))
    /\ where_result = OnePredicate("age", BsonDocument(Stage("$gt", BsonInt64(7))))

(***************************************************************************)
(* C30.  On the page-based path, for every pageNumber and pageSize read    *)
(* as counts, pageNumber 0 among them, the "$skip and $limit" block does   *)
(* not fail and the $skip stage of a returned plan holds a value that is   *)
(* not negative, (pageNumber - 1) * pageSize from pageNumber 1 on.         *)
(* Stated as the claim has it; the code subtracts in usize.                *)
(***************************************************************************)
C30_PageSkipNeverUnderflows ==
    (Done /\ Reached("paging") /\ IsPaged(paging)) =>
        /\ trace[Len(trace)] # "paging"
        /\ IsOk(result) =>
               /\ Len(SkipsOf(result.v)) = 1
               /\ SkipsOf(result.v)[1][1][2].t = "Int64"
               /\ SkipsOf(result.v)[1][1][2].n >= 0
               /\ paging.page_number.v >= 1 =>
                      SkipsOf(result.v)[1][1][2].n
                          = (paging.page_number.v - 1) * paging.page_size.v

\* what the code does: from pageNumber 1 on the skip is as claimed; pageNumber 0
\* crashes the call when the build checks overflow, and otherwise wraps to a skip
\* of minus pageSize
PageZeroUnderflows ==
    (Done /\ Reached("paging") /\ IsPaged(paging)) =>
        /\ (paging.page_number.v = 0 /\ overflow_checks) => result = Panic
        /\ paging.page_number.v >= 1 => trace[Len(trace)] # "paging"
        /\ IsOk(result) =>
               SkipsOf(result.v) = <<Stage("$skip",
                   BsonInt64((paging.page_number.v - 1) * paging.page_size.v))>>

====
